---- MODULE Spec2Model ----
(***************************************************************************)
(* Model of the workflow engine (WorkflowEngine) and of the agent          *)
(* orchestrator (AgentOrchestrator) of handoff-mcp.                        *)
(*                                                                         *)
(* The engine holds one workflow slot (operations on different workflows   *)
(* do not share state).  JavaScript `undefined` and the empty string are   *)
(* both written "" (both are falsy in the source's tests).  Dates are      *)
(* logical stamps.  The context manager and the event emitter are external *)
(* collaborators and are not part of the state.                            *)
(***************************************************************************)
EXTENDS Integers, Sequences, FiniteSets, TLC

VARIABLES
  workflows,   \* WorkflowEngine.workflows: workflow id -> workflow
  wfCall,      \* the last engine call: operation, argument, outcome, state it found
  wfHistory,   \* the first calls made on the workflow since it was created
  agents,      \* AgentOrchestrator.agents: agent id -> agent record
  agentOrder,  \* the insertion order of the agents map (its iteration order)
  agentQueue,  \* AgentOrchestrator.agentQueue, the round-robin queue
  assignments, \* AgentOrchestrator.assignments: task id -> assignment record
  loadBalancingStrategy, \* AgentOrchestrator.loadBalancingStrategy.type
  jobs,        \* continuations of asynchronous calls waiting in the microtask queue
  orchCall     \* the outcome of the last orchestrator step

wfVars == <<workflows, wfCall, wfHistory>>

orchVars == <<agents, agentOrder, agentQueue, assignments, loadBalancingStrategy, jobs, orchCall>>

vars == <<workflows, wfCall, wfHistory, agents, agentOrder, agentQueue, assignments,
          loadBalancingStrategy, jobs, orchCall>>

(***************************************************************************)
(* Bounds                                                                  *)
(***************************************************************************)
MaxStepsCompleted == 3

MaxBlockers == 1

\* wfHistory keeps the calls of a workflow while there are at most HistoryLen.
HistoryLen == 2

\* Callers pass the ids of the first MaxStepArg steps of the workflow.
MaxStepArg == 3

\* Callers use the first MaxTasks task ids.
MaxTasks == 2

\* registerAgent is called while the round-robin queue is shorter than this.
MaxQueue == 4

\* completeTask is called while the agent's tasksCompleted is below this.
MaxTasksCompleted == 1

\* failTask is called while the assignment's retryCount is below this.
MaxRetryCount == 1

\* In the retry scenario failTask is called while retryCount is below this.
MaxFailCalls == 4

\* In the scenarios that assign tasks t1, t2, ... in order, the first
\* MaxOrderedTasks task ids are assigned.
MaxOrderedTasks == 4

\* The most continuations pending at a time in the status-change scenario.
MaxJobs == 2

\* Callers start, complete and fail the first MaxLifecycleTasks task ids.
MaxLifecycleTasks == 1

(***************************************************************************)
(* Workflow engine: data                                                   *)
(***************************************************************************)
WorkflowStates ==
  {"draft", "ready", "running", "paused", "blocked", "review", "completed", "failed", "cancelled"}

Triggers ==
  {"start", "pause", "resume", "complete", "fail", "block", "unblock", "cancel", "review", "approve"}

\* The table with a cancel row for running workflows as well ("Any to
\* Cancelled" taken literally).
transitionsCancelRunning ==
  << [from |-> "draft",   to |-> "ready",     trigger |-> "start",   condition |-> "validateWorkflow", action |-> "prepareWorkflow"],
     [from |-> "ready",   to |-> "running",   trigger |-> "start",   condition |-> "",                 action |-> "startNextStep"],
     [from |-> "ready",   to |-> "blocked",   trigger |-> "block",   condition |-> "",                 action |-> "handleBlocker"],
     [from |-> "running", to |-> "paused",    trigger |-> "pause",   condition |-> "",                 action |-> "pauseCurrentStep"],
     [from |-> "paused",  to |-> "running",   trigger |-> "resume",  condition |-> "",                 action |-> "resumeCurrentStep"],
     [from |-> "running", to |-> "blocked",   trigger |-> "block",   condition |-> "",                 action |-> "handleBlocker"],
     [from |-> "blocked", to |-> "running",   trigger |-> "unblock", condition |-> "",                 action |-> "resolveBlocker"],
     [from |-> "running", to |-> "review",    trigger |-> "review",  condition |-> "allStepsComplete", action |-> "prepareReview"],
     [from |-> "review",  to |-> "completed", trigger |-> "approve", condition |-> "",                 action |-> "completeWorkflow"],
     [from |-> "running", to |-> "failed",    trigger |-> "fail",    condition |-> "",                 action |-> "handleFailure"],
     [from |-> "draft",   to |-> "cancelled", trigger |-> "cancel",  condition |-> "",                 action |-> "" ],
     [from |-> "running", to |-> "cancelled", trigger |-> "cancel",  condition |-> "",                 action |-> "" ] >>

\* The table with a recovery row that lets a failed workflow be started again.
transitionsRetryFailed ==
  << [from |-> "draft",   to |-> "ready",     trigger |-> "start",   condition |-> "validateWorkflow", action |-> "prepareWorkflow"],
     [from |-> "ready",   to |-> "running",   trigger |-> "start",   condition |-> "",                 action |-> "startNextStep"],
     [from |-> "ready",   to |-> "blocked",   trigger |-> "block",   condition |-> "",                 action |-> "handleBlocker"],
     [from |-> "running", to |-> "paused",    trigger |-> "pause",   condition |-> "",                 action |-> "pauseCurrentStep"],
     [from |-> "paused",  to |-> "running",   trigger |-> "resume",  condition |-> "",                 action |-> "resumeCurrentStep"],
     [from |-> "running", to |-> "blocked",   trigger |-> "block",   condition |-> "",                 action |-> "handleBlocker"],
     [from |-> "blocked", to |-> "running",   trigger |-> "unblock", condition |-> "",                 action |-> "resolveBlocker"],
     [from |-> "running", to |-> "review",    trigger |-> "review",  condition |-> "allStepsComplete", action |-> "prepareReview"],
     [from |-> "review",  to |-> "completed", trigger |-> "approve", condition |-> "",                 action |-> "completeWorkflow"],
     [from |-> "running", to |-> "failed",    trigger |-> "fail",    condition |-> "",                 action |-> "handleFailure"],
     [from |-> "draft",   to |-> "cancelled", trigger |-> "cancel",  condition |-> "",                 action |-> "" ],
     [from |-> "failed",  to |-> "running",   trigger |-> "start",   condition |-> "",                 action |-> "startNextStep"] >>

\* WorkflowEngine.initializeTransitions: the rows, in array order.
transitions ==
  << [from |-> "draft",   to |-> "ready",     trigger |-> "start",   condition |-> "validateWorkflow", action |-> "prepareWorkflow"],
     [from |-> "ready",   to |-> "running",   trigger |-> "start",   condition |-> "",                 action |-> "startNextStep"],
     [from |-> "ready",   to |-> "blocked",   trigger |-> "block",   condition |-> "",                 action |-> "handleBlocker"],
     [from |-> "running", to |-> "paused",    trigger |-> "pause",   condition |-> "",                 action |-> "pauseCurrentStep"],
     [from |-> "paused",  to |-> "running",   trigger |-> "resume",  condition |-> "",                 action |-> "resumeCurrentStep"],
     [from |-> "running", to |-> "blocked",   trigger |-> "block",   condition |-> "",                 action |-> "handleBlocker"],
     [from |-> "blocked", to |-> "running",   trigger |-> "unblock", condition |-> "",                 action |-> "resolveBlocker"],
     [from |-> "running", to |-> "review",    trigger |-> "review",  condition |-> "allStepsComplete", action |-> "prepareReview"],
     [from |-> "review",  to |-> "completed", trigger |-> "approve", condition |-> "",                 action |-> "completeWorkflow"],
     [from |-> "running", to |-> "failed",    trigger |-> "fail",    condition |-> "",                 action |-> "handleFailure"],
     [from |-> "draft",   to |-> "cancelled", trigger |-> "cancel",  condition |-> "",                 action |-> "" ] >>

\* A step as createWorkflow stores it; startedAt is 0 while undefined and 1
\* once stamped (completedAt and outputs are written but never read by the
\* engine and are left out).
NewStep(id, name, type, dependencies, status) ==
  [id |-> id, name |-> name, type |-> type, dependencies |-> dependencies,
   status |-> status, startedAt |-> 0]

\* WorkflowEngine.loadDefaultTemplates: (name, type, dependencies) of each step.
templates ==
  [ x \in {"feature-development", "bug-fix", "research"} |->
      CASE x = "feature-development" ->
             << <<"Requirements Analysis", "ai_task", <<>> >>,
                <<"Technical Design", "ai_task", <<"Requirements Analysis">> >>,
                <<"Implementation", "ai_task", <<"Technical Design">> >>,
                <<"Testing", "ai_task", <<"Implementation">> >>,
                <<"Code Review", "human_review", <<"Testing">> >>,
                <<"Documentation", "ai_task", <<"Code Review">> >> >>
        [] x = "bug-fix" ->
             << <<"Reproduce Issue", "ai_task", <<>> >>,
                <<"Root Cause Analysis", "ai_task", <<"Reproduce Issue">> >>,
                <<"Fix Implementation", "ai_task", <<"Root Cause Analysis">> >>,
                <<"Regression Testing", "ai_task", <<"Fix Implementation">> >>,
                <<"Verification", "human_review", <<"Regression Testing">> >> >>
        [] x = "research" ->
             << <<"Define Scope", "ai_task", <<>> >>,
                <<"Information Gathering", "ai_task", <<"Define Scope">> >>,
                <<"Analysis", "ai_task", <<"Information Gathering">> >>,
                <<"Recommendations", "ai_task", <<"Analysis">> >>,
                <<"Report Generation", "ai_task", <<"Recommendations">> >> >> ]

\* The ids crypto.randomUUID() hands out to the steps of a template workflow.
GeneratedIds == <<"u1", "u2", "u3", "u4", "u5", "u6">>

(***************************************************************************)
(* Workflow engine: helpers                                                *)
(***************************************************************************)
\* Array.prototype.find on the steps: `accepts[i]` tells whether the callback
\* accepts step i; the index of the first accepted step, 0 when there is none.
FindIndex(accepts) ==
  IF \E i \in 1..Len(accepts) : accepts[i]
    THEN CHOOSE i \in 1..Len(accepts) : accepts[i] /\ \A j \in 1..(i - 1) : ~accepts[j]
    ELSE 0

\* The percentage cut off instead of rounded.
RoundPercentFloor(n, d) == (100 * n) \div d

\* Math.round(n / d * 100) for 0 <= n, 0 < d (round half up).
RoundPercent(n, d) == (200 * n + d) \div (2 * d)

\* checkDependencies that skips a dependency no step matches.
checkDependenciesSkipMissing(steps, step) ==
  \A k \in 1..Len(step.dependencies) :
    LET depId == step.dependencies[k]
        LookUp(s) == s.name = depId \/ s.id = depId
        d == FindIndex([ix \in 1..Len(steps) |-> LookUp(steps[ix])])
    IN  d = 0 \/ steps[d].status = "completed"

\* WorkflowEngine.checkDependencies
checkDependencies(steps, step) ==
  \A k \in 1..Len(step.dependencies) :
    LET depId == step.dependencies[k]
        LookUp(s) == s.name = depId \/ s.id = depId
        d == FindIndex([ix \in 1..Len(steps) |-> LookUp(steps[ix])])
    IN  d # 0 /\ steps[d].status = "completed"

\* validateWorkflow that asks for a name only.
validateWorkflowNameOnly(w) ==
  Len(w.steps) > 0 /\ \A i \in 1..Len(w.steps) : w.steps[i].name # ""

\* WorkflowEngine.validateWorkflow
validateWorkflow(w) ==
  Len(w.steps) > 0 /\ \A i \in 1..Len(w.steps) : w.steps[i].name # "" /\ w.steps[i].type # ""

\* allStepsComplete that does not accept skipped steps.
allStepsCompletedOnly(w) ==
  \A i \in 1..Len(w.steps) : w.steps[i].status = "completed"

\* WorkflowEngine.allStepsComplete
allStepsComplete(w) ==
  \A i \in 1..Len(w.steps) : w.steps[i].status \in {"completed", "skipped"}

\* startNextStep that looks for a step already ready only.
startNextStepReadyOnly(w) ==
  LET Next1(s) == s.status = "ready"
      n == FindIndex([ix \in 1..Len(w.steps) |-> Next1(w.steps[ix])])
  IN  IF n # 0 THEN [w EXCEPT !.steps[n].status = "ready"] ELSE w

\* WorkflowEngine.startNextStep
startNextStep(w) ==
  LET Next1(s) == s.status = "ready" \/ (s.status = "pending" /\ checkDependencies(w.steps, s))
      n == FindIndex([ix \in 1..Len(w.steps) |-> Next1(w.steps[ix])])
  IN  IF n # 0 THEN [w EXCEPT !.steps[n].status = "ready"] ELSE w

\* prepareWorkflow without the jump to running.
prepareWorkflowStayReady(w) ==
  [w EXCEPT !.steps =
     [i \in 1..Len(w.steps) |->
        IF checkDependencies(w.steps, w.steps[i]) /\ w.steps[i].status = "pending"
          THEN [w.steps[i] EXCEPT !.status = "ready"]
          ELSE w.steps[i]]]

\* prepareWorkflow that promotes every pending step, dependencies or not.
prepareWorkflowPromoteAll(w) ==
  LET marked == [w EXCEPT !.steps =
                   [i \in 1..Len(w.steps) |->
                      IF w.steps[i].status = "pending"
                        THEN [w.steps[i] EXCEPT !.status = "ready"]
                        ELSE w.steps[i]]]
      hasReadySteps == \E i \in 1..Len(marked.steps) : marked.steps[i].status = "ready"
  IN  IF hasReadySteps THEN startNextStep([marked EXCEPT !.state = "running"]) ELSE marked

\* WorkflowEngine.prepareWorkflow.  The loop's writes (pending -> ready) do
\* not change what checkDependencies reads (completed), so the per-step
\* tests are independent.
prepareWorkflow(w) ==
  LET marked == [w EXCEPT !.steps =
                   [i \in 1..Len(w.steps) |->
                      IF checkDependencies(w.steps, w.steps[i]) /\ w.steps[i].status = "pending"
                        THEN [w.steps[i] EXCEPT !.status = "ready"]
                        ELSE w.steps[i]]]
      hasReadySteps == \E i \in 1..Len(marked.steps) : marked.steps[i].status = "ready"
  IN  IF hasReadySteps THEN startNextStep([marked EXCEPT !.state = "running"]) ELSE marked

\* The step currentStepId names, 0 when unset or unknown.
CurrentIndex(w) ==
  LET IsCurrent(s) == s.id = w.currentStepId
  IN  IF w.currentStepId = "" THEN 0 ELSE FindIndex([ix \in 1..Len(w.steps) |-> IsCurrent(w.steps[ix])])

\* pauseCurrentStep that takes the running current step back to pending.
pauseCurrentStepResetsStep(w) ==
  LET IsCurrent(st) == st.id = w.currentStepId
      c == IF w.currentStepId = "" THEN 0
           ELSE FindIndex([ix \in 1..Len(w.steps) |-> IsCurrent(w.steps[ix])])
  IN  IF c # 0 /\ w.steps[c].status = "running"
        THEN [w EXCEPT !.steps[c].status = "pending"] ELSE w

\* WorkflowEngine.pauseCurrentStep: only writes to the context manager.
pauseCurrentStep(w) == w

\* WorkflowEngine.resumeCurrentStep
resumeCurrentStep(w) ==
  LET c == CurrentIndex(w)
  IN  IF c # 0 THEN [w EXCEPT !.steps[c].status = "running"] ELSE w

\* WorkflowEngine.handleBlocker
handleBlocker(w) == [w EXCEPT !.metrics.blockerCount = @ + 1]

\* WorkflowEngine.resolveBlocker
resolveBlocker(w) == startNextStep(w)

\* WorkflowEngine.prepareReview: only writes metadata.actualDuration.
prepareReview(w) == w

\* WorkflowEngine.completeWorkflow
completeWorkflow(w) == [w EXCEPT !.metrics.progressPercentage = 100]

\* WorkflowEngine.handleFailure
handleFailure(w) ==
  LET c == CurrentIndex(w)
  IN  IF c # 0 THEN [w EXCEPT !.steps[c].status = "failed"] ELSE w

\* The condition of a row, "" when the row has none.
Condition(name, w) ==
  CASE name = "validateWorkflow" -> validateWorkflow(w)
    [] name = "allStepsComplete" -> allStepsComplete(w)
    [] OTHER -> TRUE

\* The action of a row, "" when the row only emits an event.
Action(name, w) ==
  CASE name = "prepareWorkflow"   -> prepareWorkflow(w)
    [] name = "startNextStep"     -> startNextStep(w)
    [] name = "handleBlocker"     -> handleBlocker(w)
    [] name = "pauseCurrentStep"  -> pauseCurrentStep(w)
    [] name = "resumeCurrentStep" -> resumeCurrentStep(w)
    [] name = "resolveBlocker"    -> resolveBlocker(w)
    [] name = "prepareReview"     -> prepareReview(w)
    [] name = "completeWorkflow"  -> completeWorkflow(w)
    [] name = "handleFailure"     -> handleFailure(w)
    [] OTHER -> w

\* WorkflowEngine.transition on a stored workflow: the workflow it leaves and
\* the outcome ("ok", or the error it throws).
transition(w, trigger) ==
  LET rows == transitions
      valid == { i \in 1..Len(rows) : rows[i].from = w.state /\ rows[i].trigger = trigger }
      passing == { i \in valid : Condition(rows[i].condition, w) }
  IN  IF valid = {} THEN [w |-> w, res |-> "InvalidTransition"]
      ELSE IF passing = {} THEN [w |-> w, res |-> "GuardNotMet"]
      ELSE LET i == CHOOSE p \in passing : \A q \in passing : p <= q
           IN  [w |-> Action(rows[i].action, [w EXCEPT !.state = rows[i].to]), res |-> "ok"]

\* WorkflowEngine.executeStep on a stored workflow.
executeStep(w, stepId) ==
  LET HasId(s) == s.id = stepId
      n == FindIndex([ix \in 1..Len(w.steps) |-> HasId(w.steps[ix])])
  IN  IF n = 0 THEN [w |-> w, res |-> "UnknownStep"]
      ELSE IF ~checkDependencies(w.steps, w.steps[n]) THEN [w |-> w, res |-> "DependenciesNotMet"]
      ELSE [w |-> [w EXCEPT !.steps[n].status = "running", !.steps[n].startedAt = 1,
                            !.currentStepId = stepId],
            res |-> "ok"]

\* WorkflowEngine.completeStep on a stored workflow.  The step and the metrics
\* are written before the review transition is tried, so an error of that
\* transition leaves them written.
completeStep(w, stepId) ==
  LET HasId(s) == s.id = stepId
      n == FindIndex([ix \in 1..Len(w.steps) |-> HasId(w.steps[ix])])
      done == [w EXCEPT !.steps[n].status = "completed",
                        !.metrics.stepsCompleted = @ + 1,
                        !.metrics.progressPercentage =
                           RoundPercent(w.metrics.stepsCompleted + 1, w.metrics.stepsTotal)]
  IN  IF n = 0 THEN [w |-> w, res |-> "UnknownStep"]
      ELSE IF allStepsComplete(done) THEN transition(done, "review")
      ELSE [w |-> startNextStep(done), res |-> "ok"]

\* WorkflowEngine.getWorkflowStatus: the ids of the steps in each list it
\* returns, in step order.
getWorkflowStatus(w) ==
  LET Ready(s) == s.status = "pending" /\ checkDependencies(w.steps, s)
      Blocked(s) == s.status = "pending" /\ ~checkDependencies(w.steps, s)
      Completed(s) == s.status = "completed"
      Ids(steps) == [i \in 1..Len(steps) |-> steps[i].id]
  IN  [readySteps |-> Ids(SelectSeq(w.steps, Ready)),
       blockedSteps |-> Ids(SelectSeq(w.steps, Blocked)),
       completedSteps |-> Ids(SelectSeq(w.steps, Completed))]

\* WorkflowEngine.createWorkflow: the workflow stored for the given template
\* id ("" when none is given) and custom steps.
createWorkflow(templateId, customSteps) ==
  LET steps == IF templateId \in DOMAIN templates
                 THEN [i \in 1..Len(templates[templateId]) |->
                         NewStep(GeneratedIds[i], templates[templateId][i][1],
                                 templates[templateId][i][2], templates[templateId][i][3], "pending")]
                 ELSE customSteps
  IN  [state |-> "draft", steps |-> steps, currentStepId |-> "",
       metrics |-> [stepsCompleted |-> 0, stepsTotal |-> Len(steps),
                    progressPercentage |-> 0, blockerCount |-> 0]]

(***************************************************************************)
(* Agent orchestrator: numbers                                             *)
(*                                                                         *)
(* currentLoad, the success rate, the average completion time and the      *)
(* selection scores are JavaScript numbers; they are kept here as exact    *)
(* fractions <<numerator, denominator>> in lowest terms.                   *)
(***************************************************************************)
RECURSIVE Gcd(_, _)
Gcd(a, b) == IF b = 0 THEN a ELSE Gcd(b, a % b)

Frac(n, d) == LET g == Gcd(n, d) IN IF n = 0 THEN <<0, 1>> ELSE <<n \div g, d \div g>>

Whole(n) == <<n, 1>>

Plus(x, y) == Frac(x[1] * y[2] + y[1] * x[2], x[2] * y[2])

Times(x, y) == Frac(x[1] * y[1], x[2] * y[2])

Less(x, y) == x[1] * y[2] < y[1] * x[2]

\* (activeTasks.length / maxConcurrentTasks) * 100
LoadOf(activeTasks, maxConcurrentTasks) == Frac(100 * Len(activeTasks), maxConcurrentTasks)

\* 1 - currentLoad / 100
Headroom(currentLoad) == Frac(100 * currentLoad[2] - currentLoad[1], 100 * currentLoad[2])

(***************************************************************************)
(* Agent orchestrator: data                                                *)
(***************************************************************************)
AgentStatuses == {"available", "busy", "offline", "error", "maintenance"}

Strategies == {"round_robin", "least_loaded", "capability_based", "performance_based", "hybrid"}

\* An AgentCapability; languages is {} when the capability lists none.
Cap(category, skill, proficiency, languages) ==
  [category |-> category, skill |-> skill, proficiency |-> proficiency, languages |-> languages]

\* A Partial<AgentCapability> of a task: "" for an absent category or skill,
\* hasLanguages tells whether a languages array is given.
Req(category, skill, hasLanguages, languages) ==
  [category |-> category, skill |-> skill, hasLanguages |-> hasLanguages, languages |-> languages]

\* An Agent record as its registration gives it.
NewAgent(id, capabilities, maxConcurrentTasks, averageCompletionTime, successRate, specialties) ==
  [id |-> id, status |-> "available", capabilities |-> capabilities,
   currentLoad |-> Whole(0), maxConcurrentTasks |-> maxConcurrentTasks, activeTasks |-> << >>,
   performance |-> [tasksCompleted |-> 0, averageCompletionTime |-> Whole(averageCompletionTime),
                    successRate |-> Whole(successRate), specialties |-> specialties]]

\* AgentOrchestrator.initializeDefaultAgents: the three default profiles.
ClaudeOpus ==
  NewAgent("claude-3-opus",
           << Cap("analysis", "system_design", 5, {}), Cap("coding", "architecture", 5, {}),
              Cap("writing", "documentation", 5, {}), Cap("review", "code_review", 4, {}),
              Cap("coding", "implementation", 4, {"typescript", "python", "rust", "go"}) >>,
           3, 30, 95,
           [k \in {"system_design", "documentation", "code_review"} |->
              CASE k = "system_design" -> 98 [] k = "documentation" -> 96 [] OTHER -> 94])

Gpt4Turbo ==
  NewAgent("gpt-4-turbo",
           << Cap("coding", "implementation", 4, {}), Cap("research", "web_search", 5, {}),
              Cap("analysis", "data_analysis", 4, {}), Cap("testing", "test_generation", 4, {}),
              Cap("coding", "debugging", 4, {"javascript", "python", "java", "c++"}) >>,
           5, 25, 92,
           [k \in {"implementation", "debugging", "test_generation"} |->
              CASE k = "implementation" -> 93 [] k = "debugging" -> 91 [] OTHER -> 90])

GeminiPro ==
  NewAgent("gemini-pro",
           << Cap("coding", "refactoring", 4, {}), Cap("analysis", "performance_optimization", 4, {}),
              Cap("research", "quick_answers", 5, {}),
              Cap("coding", "script_automation", 4, {"python", "bash", "javascript"}) >>,
           10, 15, 90,
           [k \in {"refactoring", "performance_optimization", "script_automation"} |->
              CASE k = "refactoring" -> 92 [] k = "performance_optimization" -> 89 [] OTHER -> 91])

DefaultAgents == <<ClaudeOpus, Gpt4Turbo, GeminiPro>>

(***************************************************************************)
(* Agent orchestrator: selection                                           *)
(***************************************************************************)
\* Array.from(this.agents.values()): the agent records in insertion order.
AgentList(ags, order) == [i \in 1..Len(order) |-> ags[order[i]]]

\* The candidate test without the load.
EligibleAnyLoad(a) == a.status = "available"

\* a.status === 'available' && a.currentLoad < 100
Eligible(a) == a.status = "available" /\ Less(a.currentLoad, Whole(100))

\* The position of the first highest score: scores.sort((a, b) => b.score -
\* a.score) is stable, so scores[0] is the earliest candidate of top score.
FirstBest(scores) ==
  CHOOSE i \in 1..Len(scores) :
    /\ \A j \in 1..Len(scores) : ~Less(scores[i], scores[j])
    /\ \A j \in 1..(i - 1) : Less(scores[j], scores[i])

\* selectLeastLoaded that takes the last of the least loaded agents.
selectLeastLoadedLastTie(candidates) ==
  LET i == CHOOSE i \in 1..Len(candidates) :
             /\ \A j \in 1..Len(candidates) : ~Less(candidates[j].currentLoad, candidates[i].currentLoad)
             /\ \A j \in (i + 1)..Len(candidates) : Less(candidates[i].currentLoad, candidates[j].currentLoad)
  IN  candidates[i]

\* AgentOrchestrator.selectLeastLoaded: reduce keeps the earlier agent unless
\* a later one is strictly less loaded.
selectLeastLoaded(candidates) ==
  LET i == CHOOSE i \in 1..Len(candidates) :
             /\ \A j \in 1..Len(candidates) : ~Less(candidates[j].currentLoad, candidates[i].currentLoad)
             /\ \A j \in 1..(i - 1) : Less(candidates[i].currentLoad, candidates[j].currentLoad)
  IN  candidates[i]

\* The match test of selectByCapability's find callback.
Matches(cap, required) ==
  /\ ~(required.category # "" /\ cap.category # required.category)
  /\ ~(required.skill # "" /\ cap.skill # required.skill)
  /\ required.hasLanguages => (required.languages \cap cap.languages # {})

\* The score selectByCapability gives an agent.
CapabilityScore(agent, requiredCapabilities) ==
  LET Prof(required) ==
        LET Hit(c) == Matches(c, required)
            hits == SelectSeq(agent.capabilities, Hit)
        IN  IF hits = << >> THEN 0 ELSE hits[1].proficiency
      Sum[k \in 0..Len(requiredCapabilities)] ==
        IF k = 0 THEN 0 ELSE Sum[k - 1] + Prof(requiredCapabilities[k])
  IN  Times(Whole(Sum[Len(requiredCapabilities)]), Headroom(agent.currentLoad))

\* selectByCapability that looks at the load only.
selectByCapabilityLoadOnly(candidates, requiredCapabilities) ==
  selectLeastLoaded(candidates)

\* AgentOrchestrator.selectByCapability
selectByCapability(candidates, requiredCapabilities) ==
  IF requiredCapabilities = << >> THEN selectLeastLoaded(candidates)
  ELSE LET scores == [i \in 1..Len(candidates) |-> CapabilityScore(candidates[i], requiredCapabilities)]
       IN  candidates[FirstBest(scores)]

\* The score selectByPerformance gives an agent.
PerformanceScore(agent, requiredCapabilities) ==
  LET Boost(required) ==
        IF required.skill # "" /\ required.skill \in DOMAIN agent.performance.specialties
          THEN Frac(agent.performance.specialties[required.skill], 10) ELSE Whole(0)
      Sum[k \in 0..Len(requiredCapabilities)] ==
        IF k = 0 THEN agent.performance.successRate
        ELSE Plus(Sum[k - 1], Boost(requiredCapabilities[k]))
      avg == agent.performance.averageCompletionTime
      speed == Frac(100 * avg[2] - avg[1], 10 * avg[2])
  IN  Times(Plus(Sum[Len(requiredCapabilities)], speed), Headroom(agent.currentLoad))

\* AgentOrchestrator.selectByPerformance
selectByPerformance(candidates, requiredCapabilities) ==
  LET scores == [i \in 1..Len(candidates) |-> PerformanceScore(candidates[i], requiredCapabilities)]
  IN  candidates[FirstBest(scores)]

\* selectHybrid that always takes the capability winner.
selectHybridCapabilityFirst(candidates, requiredCapabilities) ==
  selectByCapability(candidates, requiredCapabilities)

\* AgentOrchestrator.selectHybrid
selectHybrid(candidates, requiredCapabilities) ==
  LET capabilityAgent == selectByCapability(candidates, requiredCapabilities)
      performanceAgent == selectByPerformance(candidates, requiredCapabilities)
  IN  IF capabilityAgent.id = performanceAgent.id THEN capabilityAgent
      ELSE IF Less(capabilityAgent.currentLoad, performanceAgent.currentLoad)
        THEN capabilityAgent ELSE performanceAgent

\* AgentOrchestrator.selectRoundRobin: the number of queue entries shifted to
\* the back until one names a candidate (the queue always holds one: every
\* registered id is pushed on it).
RoundRobinShifts(queue, candidates) ==
  LET ids == {candidates[i].id : i \in 1..Len(candidates)}
  IN  CHOOSE k \in 1..Len(queue) : queue[k] \in ids /\ \A j \in 1..(k - 1) : queue[j] \notin ids

Rotate(queue, k) == SubSeq(queue, k + 1, Len(queue)) \o SubSeq(queue, 1, k)

\* selectAgent that gives up when the preferred agent cannot take the task.
selectAgentStrictPreference(ags, order, queue, strategy, requiredCapabilities, preferredAgent) ==
  LET availableAgents == SelectSeq(AgentList(ags, order), Eligible)
  IN  IF preferredAgent # "" /\ preferredAgent \in DOMAIN ags /\ Eligible(ags[preferredAgent])
        THEN [agent |-> preferredAgent, queue |-> queue]
      ELSE IF availableAgents = << >> \/ preferredAgent # "" THEN [agent |-> "", queue |-> queue]
      ELSE CASE strategy = "round_robin" ->
                  LET k == RoundRobinShifts(queue, availableAgents)
                  IN  [agent |-> queue[k], queue |-> Rotate(queue, k)]
             [] strategy = "least_loaded" ->
                  [agent |-> selectLeastLoaded(availableAgents).id, queue |-> queue]
             [] strategy = "capability_based" ->
                  [agent |-> selectByCapability(availableAgents, requiredCapabilities).id, queue |-> queue]
             [] strategy = "performance_based" ->
                  [agent |-> selectByPerformance(availableAgents, requiredCapabilities).id, queue |-> queue]
             [] strategy = "hybrid" ->
                  [agent |-> selectHybrid(availableAgents, requiredCapabilities).id, queue |-> queue]
             [] OTHER -> [agent |-> availableAgents[1].id, queue |-> queue]

\* AgentOrchestrator.selectAgent: the id of the chosen agent ("" for null) and
\* the round-robin queue it leaves.
selectAgent(ags, order, queue, strategy, requiredCapabilities, preferredAgent) ==
  LET availableAgents == SelectSeq(AgentList(ags, order), Eligible)
  IN  IF preferredAgent # "" /\ preferredAgent \in DOMAIN ags /\ Eligible(ags[preferredAgent])
        THEN [agent |-> preferredAgent, queue |-> queue]
      ELSE IF availableAgents = << >> THEN [agent |-> "", queue |-> queue]
      ELSE CASE strategy = "round_robin" ->
                  LET k == RoundRobinShifts(queue, availableAgents)
                  IN  [agent |-> queue[k], queue |-> Rotate(queue, k)]
             [] strategy = "least_loaded" ->
                  [agent |-> selectLeastLoaded(availableAgents).id, queue |-> queue]
             [] strategy = "capability_based" ->
                  [agent |-> selectByCapability(availableAgents, requiredCapabilities).id, queue |-> queue]
             [] strategy = "performance_based" ->
                  [agent |-> selectByPerformance(availableAgents, requiredCapabilities).id, queue |-> queue]
             [] strategy = "hybrid" ->
                  [agent |-> selectHybrid(availableAgents, requiredCapabilities).id, queue |-> queue]
             [] OTHER -> [agent |-> availableAgents[1].id, queue |-> queue]

(***************************************************************************)
(* Agent orchestrator: operations on the maps                              *)
(***************************************************************************)
\* The agent with a task pushed on its active list and its load recomputed.
WithTask(agent, taskId) ==
  [agent EXCEPT !.activeTasks = Append(@, taskId),
                !.currentLoad = LoadOf(Append(agent.activeTasks, taskId), agent.maxConcurrentTasks)]

\* The agent with a task filtered out of its active list and its load recomputed.
WithoutTask(agent, taskId) ==
  LET Keep(t) == t # taskId
  IN  [agent EXCEPT !.activeTasks = SelectSeq(@, Keep),
                    !.currentLoad = LoadOf(SelectSeq(agent.activeTasks, Keep), agent.maxConcurrentTasks)]

\* An assignment record as assignTask creates it.
NewAssignment(agentId) ==
  [agentId |-> agentId, status |-> "assigned", retryCount |-> 0, startedAt |-> 0]

\* reassignTask that does not look at the load of the candidates.
reassignTaskAnyLoad(ags, order, asgs, taskId) ==
  IF taskId \notin DOMAIN asgs THEN [agents |-> ags, assignments |-> asgs]
  ELSE LET previousAgentId == asgs[taskId].agentId
           Other(a) == a.id # previousAgentId /\ a.status = "available"
           availableAgents == SelectSeq(AgentList(ags, order), Other)
       IN  IF availableAgents = << >>
             THEN [agents |-> ags, assignments |-> [asgs EXCEPT ![taskId].status = "failed"]]
             ELSE LET newAgent == selectLeastLoaded(availableAgents).id
                  IN  [agents |-> [ags EXCEPT ![newAgent] = WithTask(@, taskId)],
                       assignments |-> [asgs EXCEPT ![taskId].agentId = newAgent,
                                                    ![taskId].status = "reassigned"]]

\* reassignTask that pushes the task without recomputing the new agent's load.
reassignTaskStaleLoad(ags, order, asgs, taskId) ==
  IF taskId \notin DOMAIN asgs THEN [agents |-> ags, assignments |-> asgs]
  ELSE LET previousAgentId == asgs[taskId].agentId
           Other(a) == a.id # previousAgentId /\ Eligible(a)
           availableAgents == SelectSeq(AgentList(ags, order), Other)
       IN  IF availableAgents = << >>
             THEN [agents |-> ags, assignments |-> [asgs EXCEPT ![taskId].status = "failed"]]
             ELSE LET newAgent == selectLeastLoaded(availableAgents).id
                  IN  [agents |-> [ags EXCEPT ![newAgent].activeTasks = Append(@, taskId)],
                       assignments |-> [asgs EXCEPT ![taskId].agentId = newAgent,
                                                    ![taskId].status = "reassigned"]]

\* reassignTask that does not mark the moved task as reassigned.
reassignTaskKeepStatus(ags, order, asgs, taskId) ==
  IF taskId \notin DOMAIN asgs THEN [agents |-> ags, assignments |-> asgs]
  ELSE LET previousAgentId == asgs[taskId].agentId
           Other(a) == a.id # previousAgentId /\ Eligible(a)
           availableAgents == SelectSeq(AgentList(ags, order), Other)
       IN  IF availableAgents = << >>
             THEN [agents |-> ags, assignments |-> [asgs EXCEPT ![taskId].status = "failed"]]
             ELSE LET newAgent == selectLeastLoaded(availableAgents).id
                  IN  [agents |-> [ags EXCEPT ![newAgent] = WithTask(@, taskId)],
                       assignments |-> [asgs EXCEPT ![taskId].agentId = newAgent]]

\* reassignTask that does not leave out the previous agent.
reassignTaskSameAgent(ags, order, asgs, taskId) ==
  IF taskId \notin DOMAIN asgs THEN [agents |-> ags, assignments |-> asgs]
  ELSE LET availableAgents == SelectSeq(AgentList(ags, order), Eligible)
       IN  IF availableAgents = << >>
             THEN [agents |-> ags, assignments |-> [asgs EXCEPT ![taskId].status = "failed"]]
             ELSE LET newAgent == selectLeastLoaded(availableAgents).id
                  IN  [agents |-> [ags EXCEPT ![newAgent] = WithTask(@, taskId)],
                       assignments |-> [asgs EXCEPT ![taskId].agentId = newAgent,
                                                    ![taskId].status = "reassigned"]]

\* AgentOrchestrator.reassignTask: the agents and assignments it leaves.
reassignTask(ags, order, asgs, taskId) ==
  IF taskId \notin DOMAIN asgs THEN [agents |-> ags, assignments |-> asgs]
  ELSE LET previousAgentId == asgs[taskId].agentId
           Other(a) == a.id # previousAgentId /\ Eligible(a)
           availableAgents == SelectSeq(AgentList(ags, order), Other)
       IN  IF availableAgents = << >>
             THEN [agents |-> ags, assignments |-> [asgs EXCEPT ![taskId].status = "failed"]]
             ELSE LET newAgent == selectLeastLoaded(availableAgents).id
                  IN  [agents |-> [ags EXCEPT ![newAgent] = WithTask(@, taskId)],
                       assignments |-> [asgs EXCEPT ![taskId].agentId = newAgent,
                                                    ![taskId].status = "reassigned"]]

\* AgentOrchestrator.reassignAgentTasks from its loop test on: `tasks` are
\* the copied task ids still to be handled.  The function runs up to its
\* first await, that is through one reassignTask call; the rest of the loop
\* and the clearing of the agent are left as a continuation.
reassignAgentTasks(ags, order, asgs, agentId, tasks) ==
  IF tasks = << >>
    THEN [agents |-> [ags EXCEPT ![agentId].activeTasks = << >>, ![agentId].currentLoad = Whole(0)],
          assignments |-> asgs, jobs |-> << >>, task |-> ""]
    ELSE LET r == reassignTask(ags, order, asgs, Head(tasks))
         IN  [agents |-> r.agents, assignments |-> r.assignments,
              jobs |-> << [kind |-> "reassignAgentTasks", agentId |-> agentId, tasks |-> Tail(tasks),
                           taskId |-> ""] >>,
              task |-> Head(tasks)]

\* AgentOrchestrator.completeTask on a known task (not linked to a workflow
\* step): `duration` is the time between startedAt and completedAt in minutes.
completeTask(ags, asgs, taskId, duration) ==
  LET assignment == asgs[taskId]
      agent == ags[assignment.agentId]
      actualDuration == IF assignment.startedAt # 0 THEN duration ELSE 0
      count == agent.performance.tasksCompleted + 1
      prevAvg == agent.performance.averageCompletionTime
      newAvg == IF actualDuration # 0
                  THEN Frac(prevAvg[1] * (count - 1) + actualDuration * prevAvg[2], prevAvg[2] * count)
                  ELSE prevAvg
      freed == WithoutTask(agent, taskId)
  IN  [agents |-> [ags EXCEPT ![assignment.agentId] =
                     [freed EXCEPT !.performance.tasksCompleted = count,
                                   !.performance.averageCompletionTime = newAvg]],
       assignments |-> [asgs EXCEPT ![taskId].status = "completed"]]

\* failTask that still retries when the incremented retryCount is 3.
failTaskRetryAtLimit(ags, order, asgs, taskId, retry) ==
  LET assignment == asgs[taskId]
      agent == ags[assignment.agentId]
      rate == agent.performance.successRate
      n == agent.performance.tasksCompleted
      ags1 == [ags EXCEPT ![assignment.agentId] =
                 [WithoutTask(agent, taskId) EXCEPT
                    !.performance.successRate = Frac(rate[1] * n, rate[2] * (n + 1))]]
      asgs1 == [asgs EXCEPT ![taskId].retryCount = @ + 1]
  IN  IF retry /\ asgs1[taskId].retryCount <= 3
        THEN reassignTask(ags1, order, asgs1, taskId)
        ELSE [agents |-> ags1, assignments |-> [asgs1 EXCEPT ![taskId].status = "failed"]]

\* AgentOrchestrator.failTask on a known task.
failTask(ags, order, asgs, taskId, retry) ==
  LET assignment == asgs[taskId]
      agent == ags[assignment.agentId]
      rate == agent.performance.successRate
      n == agent.performance.tasksCompleted
      ags1 == [ags EXCEPT ![assignment.agentId] =
                 [WithoutTask(agent, taskId) EXCEPT
                    !.performance.successRate = Frac(rate[1] * n, rate[2] * (n + 1))]]
      asgs1 == [asgs EXCEPT ![taskId].retryCount = @ + 1]
  IN  IF retry /\ asgs1[taskId].retryCount < 3
        THEN reassignTask(ags1, order, asgs1, taskId)
        ELSE [agents |-> ags1, assignments |-> [asgs1 EXCEPT ![taskId].status = "failed"]]

\* AgentOrchestrator.registerAgent
registerAgent(ags, order, queue, agent) ==
  [agents |-> IF agent.id \in DOMAIN ags THEN [ags EXCEPT ![agent.id] = agent]
              ELSE ags @@ (agent.id :> agent),
   order |-> IF agent.id \in DOMAIN ags THEN order ELSE Append(order, agent.id),
   queue |-> Append(queue, agent.id)]

\* AgentOrchestrator.updateAgentStatus up to its return: reassignAgentTasks
\* is called without await, so the call returns at that function's first
\* await and leaves its continuation in `jobs`.
updateAgentStatus(ags, order, asgs, agentId, status) ==
  IF agentId \notin DOMAIN ags
    THEN [agents |-> ags, assignments |-> asgs, jobs |-> << >>, task |-> ""]
  ELSE IF status \in {"offline", "error"}
    THEN reassignAgentTasks([ags EXCEPT ![agentId].status = status], order, asgs, agentId,
                            ags[agentId].activeTasks)
  ELSE [agents |-> [ags EXCEPT ![agentId].status = status], assignments |-> asgs,
        jobs |-> << >>, task |-> ""]

(***************************************************************************)
(* Workflow engine: callers' inputs                                        *)
(***************************************************************************)
WorkflowIds == {"w1"}

\* Custom step lists given to createWorkflow.
Linear3 ==
  << NewStep("a", "A", "ai_task", <<>>, "pending"),
     NewStep("b", "B", "ai_task", <<"a">>, "pending"),
     NewStep("c", "C", "automated", <<"b">>, "pending") >>

ParallelResearch ==
  << NewStep("track1-step1", "Research OAuth2 Security", "ai_task", <<>>, "pending"),
     NewStep("track2-step1", "Research JWT Security", "ai_task", <<>>, "pending"),
     NewStep("merge-step", "Compile Security Report", "ai_task",
             <<"Research OAuth2 Security", "Research JWT Security">>, "pending") >>

Unnamed ==
  << NewStep("a", "A", "ai_task", <<>>, "pending"),
     NewStep("b", "", "ai_task", <<>>, "pending") >>

Untyped ==
  << NewStep("a", "A", "", <<>>, "pending") >>

GhostDependency ==
  << NewStep("a", "A", "ai_task", <<>>, "pending"),
     NewStep("b", "B", "ai_task", <<"ghost">>, "pending") >>

Cyclic ==
  << NewStep("a", "A", "ai_task", <<"B">>, "pending"),
     NewStep("b", "B", "ai_task", <<"A">>, "pending"),
     NewStep("c", "C", "ai_task", <<"C">>, "pending") >>

WithSkipped ==
  << NewStep("a", "A", "ai_task", <<>>, "pending"),
     NewStep("b", "B", "decision", <<"A">>, "skipped") >>

\* Two independent steps and a third that depends on the first only.
Fork ==
  << NewStep("a", "A", "ai_task", <<>>, "pending"),
     NewStep("b", "B", "ai_task", <<>>, "pending"),
     NewStep("c", "C", "ai_task", <<"A">>, "pending") >>

\* Three steps without dependencies.
Independent3 ==
  << NewStep("a", "A", "ai_task", <<>>, "pending"),
     NewStep("b", "B", "ai_task", <<>>, "pending"),
     NewStep("c", "C", "automated", <<>>, "pending") >>

\* A chain declared last step first.
Reversed3 ==
  << NewStep("c", "C", "ai_task", <<"B">>, "pending"),
     NewStep("b", "B", "ai_task", <<"A">>, "pending"),
     NewStep("a", "A", "ai_task", <<>>, "pending") >>

CustomInputs == {Linear3, ParallelResearch, Unnamed, Untyped, GhostDependency, Cyclic, WithSkipped, <<>>}

CreateInputs ==
  {[templateId |-> "feature-development", customSteps |-> <<>>]}
    \cup {[templateId |-> "", customSteps |-> c] : c \in CustomInputs}

\* The step ids a caller passes: the workflow's own and one it does not have.
StepIdsOf(w) ==
  {w.steps[i].id : i \in {j \in 1..Len(w.steps) : j <= MaxStepArg}} \cup {"nosuch"}

(***************************************************************************)
(* Workflow engine: operations                                             *)
(***************************************************************************)
\* The record kept of a call and of the workflow state it found.
Call(op, arg, res, from) == [op |-> op, arg |-> arg, res |-> res, from |-> from]

Overflow == << <<"more", "">> >>

Remember(op, arg) ==
  IF wfHistory # Overflow /\ Len(wfHistory) < HistoryLen
    THEN Append(wfHistory, <<op, arg>>)
    ELSE Overflow

CreateWorkflow(p) ==
  /\ UNCHANGED orchVars
  /\ workflows = << >>
  /\ workflows' = [id \in {"w1"} |-> createWorkflow(p.templateId, p.customSteps)]
  /\ wfCall' = Call("createWorkflow", p.templateId, "ok", "")
  /\ wfHistory' = << >>

Transition(id, trigger) ==
  /\ UNCHANGED orchVars
  /\ wfHistory' = Remember("transition", trigger)
  /\ IF id \in DOMAIN workflows
       THEN LET r == transition(workflows[id], trigger)
            IN  /\ r.w.metrics.blockerCount <= MaxBlockers
                /\ workflows' = [workflows EXCEPT ![id] = r.w]
                /\ wfCall' = Call("transition", trigger, r.res, workflows[id].state)
       ELSE /\ workflows' = workflows
            /\ wfCall' = Call("transition", trigger, "UnknownWorkflow", "")

ExecuteStep(id, stepId) ==
  /\ UNCHANGED orchVars
  /\ wfHistory' = Remember("executeStep", stepId)
  /\ IF id \in DOMAIN workflows
       THEN LET r == executeStep(workflows[id], stepId)
            IN  /\ workflows' = [workflows EXCEPT ![id] = r.w]
                /\ wfCall' = Call("executeStep", stepId, r.res, workflows[id].state)
       ELSE /\ workflows' = workflows
            /\ wfCall' = Call("executeStep", stepId, "UnknownWorkflow", "")

CompleteStep(id, stepId) ==
  /\ UNCHANGED orchVars
  /\ wfHistory' = Remember("completeStep", stepId)
  /\ IF id \in DOMAIN workflows
       THEN LET r == completeStep(workflows[id], stepId)
            IN  /\ r.w.metrics.stepsCompleted <= MaxStepsCompleted
                /\ workflows' = [workflows EXCEPT ![id] = r.w]
                /\ wfCall' = Call("completeStep", stepId, r.res, workflows[id].state)
       ELSE /\ workflows' = workflows
            /\ wfCall' = Call("completeStep", stepId, "UnknownWorkflow", "")

CallerStepIds == IF "w1" \in DOMAIN workflows THEN StepIdsOf(workflows["w1"]) ELSE {"nosuch"}

(***************************************************************************)
(* Agent orchestrator: callers' inputs                                     *)
(***************************************************************************)
AllTaskIds == <<"t1", "t2", "t3", "t4", "t5", "t6">>

TaskIds == {AllTaskIds[i] : i \in 1..MaxTasks}

\* A profile registered under a new id, with room for one task.
Worker ==
  NewAgent("worker-1", << Cap("coding", "debugging", 2, {}) >>, 1, 20, 80, << >>)

\* Profiles given to registerAgent.
RegisterInputs == {Worker}

\* requiredCapabilities given to assignTask.
RequirementInputs ==
  { << >>,
    << Req("coding", "debugging", FALSE, {}) >>,
    << Req("analysis", "system_design", FALSE, {}) >>,
    << Req("coding", "", TRUE, {"python"}) >>,
    << Req("", "no_such_skill", FALSE, {}) >> }

PreferredInputs == {"", "claude-3-opus", "worker-1"}

\* The status changes callers make: every status is set on some agent, and
\* the agent taken out of service by offline and error holds tasks.
StatusInputs ==
  { <<"claude-3-opus", "available">>, <<"claude-3-opus", "busy">>,
    <<"gpt-4-turbo", "available">>, <<"gpt-4-turbo", "error">>, <<"gpt-4-turbo", "offline">>,
    <<"gemini-pro", "available">>, <<"gemini-pro", "maintenance">> }

\* The tasks callers start, complete and fail.
LifecycleTaskIds == {AllTaskIds[i] : i \in 1..MaxLifecycleTasks}

\* Minutes between startTask and completeTask.
Durations == {20}

(***************************************************************************)
(* Agent orchestrator: operations                                          *)
(***************************************************************************)
\* Callers run the operations one at a time: a call starts when the
\* continuations of the previous calls have run.
Quiet == jobs = << >>

RegisterAgent(profile) ==
  /\ Quiet
  /\ Len(agentQueue) < MaxQueue
  /\ LET r == registerAgent(agents, agentOrder, agentQueue, profile)
     IN  /\ agents' = r.agents
         /\ agentOrder' = r.order
         /\ agentQueue' = r.queue
  /\ orchCall' = "ok"
  /\ UNCHANGED <<assignments, loadBalancingStrategy, jobs>>
  /\ UNCHANGED wfVars

UpdateAgentStatus(agentId, status) ==
  /\ Quiet
  /\ LET r == updateAgentStatus(agents, agentOrder, assignments, agentId, status)
     IN  /\ agents' = r.agents
         /\ assignments' = r.assignments
         /\ jobs' = r.jobs
         /\ orchCall' = "ok"
  /\ UNCHANGED <<agentOrder, agentQueue, loadBalancingStrategy>>
  /\ UNCHANGED wfVars

\* reassignAgentTasks resumed after an await.
ResumeReassignAgentTasks ==
  /\ jobs # << >>
  /\ Head(jobs).kind = "reassignAgentTasks"
  /\ LET j == Head(jobs)
         r == reassignAgentTasks(agents, agentOrder, assignments, j.agentId, j.tasks)
     IN  /\ agents' = r.agents
         /\ assignments' = r.assignments
         /\ jobs' = Tail(jobs) \o r.jobs
         /\ orchCall' = "ok"
  /\ UNCHANGED <<agentOrder, agentQueue, loadBalancingStrategy>>
  /\ UNCHANGED wfVars

\* assignTask up to `await this.selectAgent(...)`: the agent is selected, the
\* rest of the call is left as a continuation.
AssignTask(taskId, requiredCapabilities, preferredAgent) ==
  /\ Quiet
  /\ taskId \notin DOMAIN assignments
  /\ LET sel == selectAgent(agents, agentOrder, agentQueue, loadBalancingStrategy,
                            requiredCapabilities, preferredAgent)
     IN  /\ agentQueue' = sel.queue
         /\ jobs' = Append(jobs, [kind |-> "assignTask", agentId |-> sel.agent, tasks |-> << >>,
                                  taskId |-> taskId])
         /\ orchCall' = "pending"
  /\ UNCHANGED <<agents, agentOrder, assignments, loadBalancingStrategy>>
  /\ UNCHANGED wfVars

\* assignTask resumed with the selected agent.
ResumeAssignTask ==
  /\ jobs # << >>
  /\ Head(jobs).kind = "assignTask"
  /\ LET j == Head(jobs)
     IN  IF j.agentId = ""
           THEN /\ orchCall' = "NoAgentAvailable"
                /\ UNCHANGED <<agents, assignments>>
           ELSE /\ agents' = [agents EXCEPT ![j.agentId] = WithTask(@, j.taskId)]
                /\ assignments' = (j.taskId :> NewAssignment(j.agentId)) @@ assignments
                /\ orchCall' = "ok"
  /\ jobs' = Tail(jobs)
  /\ UNCHANGED <<agentOrder, agentQueue, loadBalancingStrategy>>
  /\ UNCHANGED wfVars

StartTask(taskId) ==
  /\ Quiet
  /\ IF taskId \in DOMAIN assignments
       THEN /\ assignments' = [assignments EXCEPT ![taskId].status = "in_progress",
                                                  ![taskId].startedAt = 1]
            /\ orchCall' = "ok"
       ELSE /\ assignments' = assignments
            /\ orchCall' = "UnknownTask"
  /\ UNCHANGED <<agents, agentOrder, agentQueue, loadBalancingStrategy, jobs>>
  /\ UNCHANGED wfVars

CompleteTask(taskId, duration) ==
  /\ Quiet
  /\ IF taskId \in DOMAIN assignments
       THEN LET r == completeTask(agents, assignments, taskId, duration)
            IN  /\ agents[assignments[taskId].agentId].performance.tasksCompleted < MaxTasksCompleted
                /\ agents' = r.agents
                /\ assignments' = r.assignments
                /\ orchCall' = "ok"
       ELSE /\ UNCHANGED <<agents, assignments>>
            /\ orchCall' = "UnknownTask"
  /\ UNCHANGED <<agentOrder, agentQueue, loadBalancingStrategy, jobs>>
  /\ UNCHANGED wfVars

FailTask(taskId, retry) ==
  /\ Quiet
  /\ IF taskId \in DOMAIN assignments
       THEN LET r == failTask(agents, agentOrder, assignments, taskId, retry)
            IN  /\ assignments[taskId].retryCount < MaxRetryCount
                /\ agents' = r.agents
                /\ assignments' = r.assignments
                /\ orchCall' = "ok"
       ELSE /\ UNCHANGED <<agents, assignments>>
            /\ orchCall' = "UnknownTask"
  /\ UNCHANGED <<agentOrder, agentQueue, loadBalancingStrategy, jobs>>
  /\ UNCHANGED wfVars

\* failTask as the retry scenario calls it: as often as MaxFailCalls allows.
RetryFailTask(taskId, retry) ==
  /\ Quiet
  /\ taskId \in DOMAIN assignments
  /\ assignments[taskId].retryCount < MaxFailCalls
  /\ LET r == failTask(agents, agentOrder, assignments, taskId, retry)
     IN  /\ agents' = r.agents
         /\ assignments' = r.assignments
  /\ orchCall' = "ok"
  /\ UNCHANGED <<agentOrder, agentQueue, loadBalancingStrategy, jobs>>
  /\ UNCHANGED wfVars

\* assignTask called while earlier assignTask calls are still waiting at
\* their await (as under Promise.all): it runs up to `await
\* this.selectAgent(...)` and queues its continuation behind theirs.
ConcurrentAssignTask(taskId, requiredCapabilities, preferredAgent) ==
  /\ taskId \notin DOMAIN assignments
  /\ \A i \in 1..Len(jobs) : jobs[i].kind = "assignTask" /\ jobs[i].taskId # taskId
  /\ LET sel == selectAgent(agents, agentOrder, agentQueue, loadBalancingStrategy,
                            requiredCapabilities, preferredAgent)
     IN  /\ agentQueue' = sel.queue
         /\ jobs' = Append(jobs, [kind |-> "assignTask", agentId |-> sel.agent, tasks |-> << >>,
                                  taskId |-> taskId])
         /\ orchCall' = "pending"
  /\ UNCHANGED <<agents, agentOrder, assignments, loadBalancingStrategy>>
  /\ UNCHANGED wfVars

(***************************************************************************)
(* Specifications                                                          *)
(***************************************************************************)
\* The engine after construction: no workflow.
InitEngine ==
  /\ workflows = << >>
  /\ wfCall = Call("new", "", "ok", "")
  /\ wfHistory = << >>

\* The orchestrator after construction with the given strategy: the default
\* agents registered in order, nothing assigned.
InitOrchestrator(strategy) ==
  /\ agents = [id \in {"claude-3-opus", "gpt-4-turbo", "gemini-pro"} |->
                 CASE id = "claude-3-opus" -> ClaudeOpus
                   [] id = "gpt-4-turbo" -> Gpt4Turbo
                   [] OTHER -> GeminiPro]
  /\ agentOrder = <<"claude-3-opus", "gpt-4-turbo", "gemini-pro">>
  /\ agentQueue = <<"claude-3-opus", "gpt-4-turbo", "gemini-pro">>
  /\ assignments = << >>
  /\ loadBalancingStrategy = strategy
  /\ jobs = << >>
  /\ orchCall = "ok"

\* No orchestrator is constructed: the engine is used on its own.
NoOrchestrator ==
  /\ agents = << >>
  /\ agentOrder = << >>
  /\ agentQueue = << >>
  /\ assignments = << >>
  /\ loadBalancingStrategy = ""
  /\ jobs = << >>
  /\ orchCall = "ok"

\* The workflow engine under its callers.
Init ==
  /\ InitEngine
  /\ NoOrchestrator

Next ==
  \/ \E p \in CreateInputs : CreateWorkflow(p)
  \/ \E t \in Triggers : Transition("w1", t)
  \/ \E s \in CallerStepIds : ExecuteStep("w1", s)
  \/ \E s \in CallerStepIds : CompleteStep("w1", s)

Spec == Init /\ [][Next]_vars

\* The orchestrator under callers that run its operations one at a time.
InitOrch ==
  /\ InitEngine
  /\ \E strategy \in Strategies : InitOrchestrator(strategy)

NextOrch ==
  \/ \E p \in RegisterInputs : RegisterAgent(p)
  \/ \E p \in StatusInputs : UpdateAgentStatus(p[1], p[2])
  \/ ResumeReassignAgentTasks
  \/ \E t \in TaskIds, r \in RequirementInputs, p \in PreferredInputs : AssignTask(t, r, p)
  \/ ResumeAssignTask
  \/ \E t \in LifecycleTaskIds : StartTask(t)
  \/ \E t \in LifecycleTaskIds, d \in Durations : CompleteTask(t, d)
  \/ \E t \in LifecycleTaskIds, r \in BOOLEAN : FailTask(t, r)

SpecOrch == InitOrch /\ [][NextOrch]_vars

\* The retry scenario: one caller assigns tasks and keeps failing them while
\* agents go in and out of service.
InitRetry ==
  /\ InitEngine
  /\ InitOrchestrator("capability_based")

NextRetry ==
  \/ \E t \in LifecycleTaskIds, p \in PreferredInputs : AssignTask(t, << >>, p)
  \/ ResumeAssignTask
  \/ \E p \in StatusInputs : UpdateAgentStatus(p[1], p[2])
  \/ ResumeReassignAgentTasks
  \/ \E t \in LifecycleTaskIds : StartTask(t)
  \/ \E t \in LifecycleTaskIds, r \in BOOLEAN : RetryFailTask(t, r)

SpecRetry == InitRetry /\ [][NextRetry]_vars

\* The orchestrator under a caller that issues assignTask calls without
\* awaiting each one.
NextConcurrent ==
  \/ \E p \in RegisterInputs : RegisterAgent(p)
  \/ \E p \in StatusInputs : UpdateAgentStatus(p[1], p[2])
  \/ ResumeReassignAgentTasks
  \/ \E t \in TaskIds, r \in RequirementInputs, p \in PreferredInputs : ConcurrentAssignTask(t, r, p)
  \/ ResumeAssignTask

SpecConcurrent == InitOrch /\ [][NextConcurrent]_vars

\* The round-robin scenario: agents are registered and their statuses set
\* before the first task, then tasks t1, t2, ... are assigned in that order
\* without a preferred agent.
\* Profiles registered in the scenario: a new one and one whose id is already
\* registered.
RoundRobinRegisterInputs == {Worker, Gpt4Turbo}

Setup == assignments = << >> /\ jobs = << >>

SetupRegisterAgent(profile) == Setup /\ RegisterAgent(profile)

SetupUpdateAgentStatus(agentId, status) == Setup /\ UpdateAgentStatus(agentId, status)

AssignNextTask ==
  \E i \in 1..MaxOrderedTasks :
    /\ \A j \in 1..(i - 1) : AllTaskIds[j] \in DOMAIN assignments
    /\ AssignTask(AllTaskIds[i], << >>, "")

InitRoundRobin ==
  /\ InitEngine
  /\ InitOrchestrator("round_robin")

NextRoundRobin ==
  \/ \E p \in RoundRobinRegisterInputs : SetupRegisterAgent(p)
  \/ \E p \in StatusInputs : SetupUpdateAgentStatus(p[1], p[2])
  \/ AssignNextTask
  \/ ResumeAssignTask

SpecRoundRobin == InitRoundRobin /\ [][NextRoundRobin]_vars

\* The capability scenario: agents are registered and their statuses set
\* before the first task, then tasks t1, t2, ... are assigned in that order
\* under capability_based, each with some required capabilities and no
\* preferred agent.
AssignNextTaskRequiring(requiredCapabilities) ==
  \E i \in 1..MaxOrderedTasks :
    /\ \A j \in 1..(i - 1) : AllTaskIds[j] \in DOMAIN assignments
    /\ AssignTask(AllTaskIds[i], requiredCapabilities, "")

InitCapability ==
  /\ InitEngine
  /\ InitOrchestrator("capability_based")

NextCapability ==
  \/ \E p \in RegisterInputs : SetupRegisterAgent(p)
  \/ \E p \in StatusInputs : SetupUpdateAgentStatus(p[1], p[2])
  \/ \E r \in RequirementInputs : AssignNextTaskRequiring(r)
  \/ ResumeAssignTask

SpecCapability == InitCapability /\ [][NextCapability]_vars

\* The hybrid scenario: the capability scenario under the hybrid strategy.
InitHybrid ==
  /\ InitEngine
  /\ InitOrchestrator("hybrid")

SpecHybrid == InitHybrid /\ [][NextCapability]_vars

\* The status-change scenario: under least_loaded one caller awaits each of
\* its assignTask and failTask calls, while the reassignment that
\* updateAgentStatus starts without await goes on in the background, so the
\* caller's next calls run between the steps of that reassignment.  The
\* other agents' statuses are set before the first task; gpt-4-turbo goes out
\* of service and comes back at any time.
Awaited == \A i \in 1..Len(jobs) : jobs[i].kind # "assignTask"

\* updateAgentStatus called while earlier reassignments may be pending: the
\* continuation it leaves is queued behind theirs.
BackgroundUpdateAgentStatus(agentId, status) ==
  /\ Awaited
  /\ Len(jobs) < MaxJobs
  /\ LET r == updateAgentStatus(agents, agentOrder, assignments, agentId, status)
     IN  /\ agents' = r.agents
         /\ assignments' = r.assignments
         /\ jobs' = jobs \o r.jobs
         /\ orchCall' = "ok"
  /\ UNCHANGED <<agentOrder, agentQueue, loadBalancingStrategy>>
  /\ UNCHANGED wfVars

\* assignTask for the next task, called while reassignments may be pending,
\* up to `await this.selectAgent(...)`.
BackgroundAssignTask(preferredAgent) ==
  /\ Awaited
  /\ \E i \in 1..MaxOrderedTasks :
       /\ \A j \in 1..(i - 1) : AllTaskIds[j] \in DOMAIN assignments
       /\ AllTaskIds[i] \notin DOMAIN assignments
       /\ LET sel == selectAgent(agents, agentOrder, agentQueue, loadBalancingStrategy,
                                 << >>, preferredAgent)
          IN  /\ agentQueue' = sel.queue
              /\ jobs' = Append(jobs, [kind |-> "assignTask", agentId |-> sel.agent,
                                       tasks |-> << >>, taskId |-> AllTaskIds[i]])
              /\ orchCall' = "pending"
  /\ UNCHANGED <<agents, agentOrder, assignments, loadBalancingStrategy>>
  /\ UNCHANGED wfVars

InitBackground ==
  /\ InitEngine
  /\ InitOrchestrator("least_loaded")

NextBackground ==
  \/ \E p \in RegisterInputs : SetupRegisterAgent(p)
  \/ \E p \in StatusInputs : SetupUpdateAgentStatus(p[1], p[2])
  \/ \E p \in {q \in StatusInputs : q[1] = "gpt-4-turbo"} : BackgroundUpdateAgentStatus(p[1], p[2])
  \/ ResumeReassignAgentTasks
  \/ BackgroundAssignTask("")
  \/ ResumeAssignTask
  \/ \E t \in LifecycleTaskIds, r \in BOOLEAN : FailTask(t, r)

SpecBackground == InitBackground /\ [][NextBackground]_vars

\* The continuations are microtasks: each one left is run.
SpecBackgroundFair ==
  SpecBackground /\ WF_vars(ResumeReassignAgentTasks) /\ WF_vars(ResumeAssignTask)

(***************************************************************************)
(* Workflow engine: properties                                             *)
(***************************************************************************)
Exists == "w1" \in DOMAIN workflows

W == workflows["w1"]

\* The transition table of the specification: (from, trigger, to).
SpecTable ==
  { <<"draft", "start", "ready">>,     <<"ready", "start", "running">>,
    <<"ready", "block", "blocked">>,   <<"running", "pause", "paused">>,
    <<"paused", "resume", "running">>, <<"running", "block", "blocked">>,
    <<"blocked", "unblock", "running">>, <<"running", "review", "review">>,
    <<"review", "approve", "completed">>, <<"running", "fail", "failed">>,
    <<"draft", "cancel", "cancelled">> }

SpecRows(from, trigger) == { r \in SpecTable : r[1] = from /\ r[2] = trigger }

\* The step a dependency names: the first step of that name, else the first
\* step of that id, else 0.
Resolve(steps, dep) ==
  LET byName == { i \in 1..Len(steps) : steps[i].name = dep }
      byId == { i \in 1..Len(steps) : steps[i].id = dep }
      First(S) == CHOOSE i \in S : \A j \in S : i <= j
  IN  IF byName # {} THEN First(byName) ELSE IF byId # {} THEN First(byId) ELSE 0

DepsCompleted(steps, step) ==
  \A k \in 1..Len(step.dependencies) :
    /\ Resolve(steps, step.dependencies[k]) # 0
    /\ steps[Resolve(steps, step.dependencies[k])].status = "completed"

AllDone(w) == \A i \in 1..Len(w.steps) : w.steps[i].status \in {"completed", "skipped"}

NumCompleted(w) == Cardinality({ i \in 1..Len(w.steps) : w.steps[i].status = "completed" })

IsFeature == Exists /\ Len(W.steps) = 6 /\ W.steps[1].name = "Requirements Analysis"

IsLinear3 == Exists /\ Len(W.steps) = 3 /\ W.steps[3].dependencies = <<"b">>

StartCall == <<"transition", "start">>

\* Exactly the first step is ready or running, every other step is pending.
OnlyFirstActive ==
  /\ W.steps[1].status \in {"ready", "running"}
  /\ \A i \in 2..Len(W.steps) : W.steps[i].status = "pending"

C4_ReadyImpliesDepsCompleted ==
  Exists => \A i \in 1..Len(W.steps) :
              W.steps[i].status = "ready" => DepsCompleted(W.steps, W.steps[i])

C6_ReviewAfterLastStep ==
  (Exists /\ wfCall.op = "completeStep" /\ wfCall.from = "running" /\ wfCall.res # "UnknownStep")
    => /\ AllDone(W) => (W.state = "review" /\ wfCall.res = "ok")
       /\ ~AllDone(W) => W.state = "running"
       /\ (IsLinear3 /\ NumCompleted(W) = W.metrics.stepsCompleted)
             => (W.state = IF W.metrics.stepsCompleted = 3 THEN "review" ELSE "running")

C6_Witness ==
  /\ IsLinear3 /\ wfCall.op = "completeStep" /\ wfCall.from = "running"
  /\ W.metrics.stepsCompleted = 3 /\ W.state = "review"

(***************************************************************************)
(* Agent orchestrator: properties                                          *)
(***************************************************************************)
Failing == {"offline", "error"}

\* Some agent other than `agentId` is available with spare capacity.
OtherEligible(agentId) == \E b \in DOMAIN agents : b # agentId /\ Eligible(agents[b])

Holds(agentId, taskId) == \E i \in 1..Len(agents[agentId].activeTasks) : agents[agentId].activeTasks[i] = taskId

C8_LoadMatchesActiveTasks ==
  \A a \in DOMAIN agents :
    agents[a].currentLoad[1] * agents[a].maxConcurrentTasks
      = 100 * Len(agents[a].activeTasks) * agents[a].currentLoad[2]

\* A reassignment has moved a task to an agent that now holds two tasks.
C8_Witness ==
  \E a \in DOMAIN agents, t \in DOMAIN assignments :
    /\ Len(agents[a].activeTasks) = 2
    /\ assignments[t].agentId = a /\ assignments[t].status = "reassigned"
    /\ Holds(a, t)

\* C9 as stated: when updateAgentStatus(A, offline) or
\* updateAgentStatus(A, error) returns, A's active set is empty, A's
\* currentLoad is 0 and nothing of the reassignment is left to run.
C9_Original ==
  [][ \A p \in StatusInputs :
        (p[2] \in Failing /\ UpdateAgentStatus(p[1], p[2]))
          => /\ agents'[p[1]].activeTasks = << >>
             /\ agents'[p[1]].currentLoad = Whole(0)
             /\ jobs' = << >> ]_vars

\* C10: when a task held by agent A is reassigned because A's status was
\* set to error or offline (in the call for A's first task, in the
\* continuation for the others) while another agent is available with spare
\* capacity, the task's assignment status becomes reassigned and its agentId
\* an agent other than A that holds the task.
C10_ReassignedOnAgentFailure ==
  [][ \A t \in DOMAIN assignments :
        LET A == assignments[t].agentId
            inCall == /\ Quiet /\ A \in DOMAIN agents
                      /\ agents[A].activeTasks # << >> /\ Head(agents[A].activeTasks) = t
                      /\ \E st \in Failing : UpdateAgentStatus(A, st)
            inContinuation == /\ ~Quiet /\ Head(jobs).kind = "reassignAgentTasks"
                              /\ Head(jobs).agentId = A
                              /\ Head(jobs).tasks # << >> /\ Head(Head(jobs).tasks) = t
                              /\ ResumeReassignAgentTasks
        IN  ((inCall \/ inContinuation) /\ OtherEligible(A))
              => /\ assignments'[t].status = "reassigned"
                 /\ assignments'[t].agentId # A
                 /\ Eligible(agents[assignments'[t].agentId])
                 /\ \E i \in 1..Len(agents'[assignments'[t].agentId].activeTasks) :
                      agents'[assignments'[t].agentId].activeTasks[i] = t ]_vars

\* The agent was set to error or offline with one task, and that task is now
\* reassigned to another agent.
C10_Witness ==
  \E t \in DOMAIN assignments :
    /\ assignments[t].status = "reassigned" /\ assignments[t].retryCount = 0
    /\ assignments[t].agentId # "gpt-4-turbo"
    /\ agents["gpt-4-turbo"].status \in Failing
    /\ agents["gpt-4-turbo"].activeTasks = <<t>>

\* How many times the task id is on the agent's active list.
Copies(ags, agentId, taskId) ==
  IF agentId \in DOMAIN ags
    THEN Cardinality({ i \in 1..Len(ags[agentId].activeTasks) : ags[agentId].activeTasks[i] = taskId })
    ELSE 0

\* C11: whenever an assigned task is put on an agent's active list (a
\* reassignment by failTask with retry or by updateAgentStatus), that agent
\* is not the agent the task was assigned to immediately before and the
\* assignment names it with status reassigned; and failTask with retry
\* below the retry limit marks the assignment failed, adding it to no agent,
\* when no other agent is available with spare capacity.
C11_ReassignedToAnotherAgent ==
  [][ \A t \in DOMAIN assignments :
        /\ \A a \in DOMAIN agents' :
             Copies(agents', a, t) > Copies(agents, a, t)
               => /\ a # assignments[t].agentId
                  /\ assignments'[t].agentId = a
                  /\ assignments'[t].status = "reassigned"
        /\ (FailTask(t, TRUE) /\ assignments[t].retryCount + 1 < 3
              /\ ~OtherEligible(assignments[t].agentId))
             => /\ assignments'[t].status = "failed"
                /\ assignments'[t].agentId = assignments[t].agentId
                /\ \A a \in DOMAIN agents' : Copies(agents', a, t) = 0 ]_vars

\* failTask with retry has moved the task to another agent.
C11_Witness ==
  \E t \in DOMAIN assignments :
    /\ assignments[t].status = "reassigned" /\ assignments[t].retryCount = 1
    /\ Copies(agents, assignments[t].agentId, t) = 1

\* C12: every failTask call adds one to the assignment's retryCount, and
\* nothing else changes it; the call reassigns the task only when retry is
\* true and the incremented retryCount is below 3 (marking it failed if no
\* other agent can take it) and otherwise marks it failed and gives it to no
\* agent.  So the first two calls at most reassign and from the third call
\* on the task is left failed.
C12_RetryBounded ==
  [][ \A t \in DOMAIN assignments :
        /\ \A retry \in BOOLEAN :
             RetryFailTask(t, retry)
               => /\ assignments'[t].retryCount = assignments[t].retryCount + 1
                  /\ IF retry /\ assignments[t].retryCount + 1 < 3
                       THEN IF OtherEligible(assignments[t].agentId)
                              THEN assignments'[t].status = "reassigned"
                              ELSE assignments'[t].status = "failed"
                       ELSE /\ assignments'[t].status = "failed"
                            /\ assignments'[t].agentId = assignments[t].agentId
                            /\ \A a \in DOMAIN agents : Copies(agents', a, t) = 0
        /\ assignments'[t].retryCount # assignments[t].retryCount
             => \E retry \in BOOLEAN : RetryFailTask(t, retry)
        /\ (assignments'[t].retryCount # assignments[t].retryCount
              /\ assignments'[t].status = "reassigned")
             => assignments'[t].retryCount <= 2 ]_vars

\* The third failTask call, asked to retry, has left the task failed.
C12_Witness ==
  \E t \in DOMAIN assignments :
    /\ assignments[t].retryCount = 3 /\ assignments[t].status = "failed"
    /\ \E a \in DOMAIN agents : a # assignments[t].agentId /\ Eligible(agents[a])

\* C13: once an assignment is completed or failed, no step changes its
\* status and none puts its task id on an agent's active list.
C13_TerminalStatuses ==
  [][ \A t \in DOMAIN assignments :
        assignments[t].status \in {"completed", "failed"}
          => /\ assignments'[t].status = assignments[t].status
             /\ \A a \in DOMAIN agents' : Copies(agents', a, t) <= Copies(agents, a, t) ]_vars

\* The assignTask calls that have selected the agent and not yet resumed.
Selected(agentId) ==
  Cardinality({ i \in 1..Len(jobs) : jobs[i].kind = "assignTask" /\ jobs[i].agentId = agentId })

\* C14: assignTask calls whose bodies interleave behave as if serialised per
\* agent: the tasks an agent holds together with the calls that have
\* selected it never exceed maxConcurrentTasks, so its active task count
\* never does.
C14_ConcurrentAssignSerialised ==
  \A a \in DOMAIN agents :
    Len(agents[a].activeTasks) + Selected(a) <= agents[a].maxConcurrentTasks

InSeq(x, seq) == \E i \in 1..Len(seq) : seq[i] = x

\* C15: after a template workflow has been started, readySteps of
\* getWorkflowStatus is not empty and holds the step the engine made ready;
\* and in every state every step that is not yet started (pending or ready)
\* with all dependencies completed is in readySteps.
C15_ReadyStepsReported ==
  Exists =>
    /\ (IsFeature /\ wfHistory = <<StartCall>>)
          => /\ getWorkflowStatus(W).readySteps # << >>
             /\ InSeq(W.steps[1].id, getWorkflowStatus(W).readySteps)
    /\ \A i \in 1..Len(W.steps) :
          (W.steps[i].status \in {"pending", "ready"} /\ checkDependencies(W.steps, W.steps[i]))
            => InSeq(W.steps[i].id, getWorkflowStatus(W).readySteps)

SomeStepRunning(w) == \E i \in 1..Len(w.steps) : w.steps[i].status = "running"

\* C16 as stated: a workflow leaves state running only when none of its
\* steps has status running.
C16_Original ==
  [][ (Exists /\ W.state = "running" /\ workflows'["w1"].state # "running")
        => ~SomeStepRunning(W) ]_vars

\* C16 amended: a workflow leaves running for paused, blocked, review or
\* failed only.  It enters review only with every step completed or skipped,
\* so with no step running; pause and block are taken whatever the steps'
\* statuses and leave every step, a running one included, as it was; fail
\* marks the current step failed and leaves the other steps as they were.
C16_LeavingRunning ==
  [][ (Exists /\ W.state = "running" /\ workflows'["w1"].state # "running")
        => LET w2 == workflows'["w1"]
           IN  /\ w2.state \in {"paused", "blocked", "review", "failed"}
               /\ w2.state = "review" => (AllDone(w2) /\ ~SomeStepRunning(w2))
               /\ w2.state \in {"paused", "blocked"}
                    => (w2.steps = W.steps /\ w2.currentStepId = W.currentStepId)
               /\ w2.state = "failed"
                    => \A i \in 1..Len(W.steps) :
                         w2.steps[i].status = IF W.steps[i].id = W.currentStepId /\ i = CurrentIndex(W)
                                                THEN "failed" ELSE W.steps[i].status ]_vars

\* The workflow was paused while its current step is running.
C16_Witness ==
  /\ Exists /\ W.state = "paused" /\ wfCall.op = "transition" /\ wfCall.arg = "pause"
  /\ wfCall.res = "ok" /\ CurrentIndex(W) # 0 /\ W.steps[CurrentIndex(W)].status = "running"

\* C17: while a workflow stays blocked no step changes status and
\* currentStepId keeps its value.
C17_BlockedFreezesSteps ==
  [][ (Exists /\ W.state = "blocked" /\ workflows'["w1"].state = "blocked")
        => /\ \A i \in 1..Len(W.steps) : workflows'["w1"].steps[i].status = W.steps[i].status
           /\ workflows'["w1"].currentStepId = W.currentStepId ]_vars

TerminalStates == {"failed", "completed", "cancelled"}

SomeStepIncomplete(w) ==
  \E i \in 1..Len(w.steps) : w.steps[i].name = "" \/ w.steps[i].type = ""

\* Some step of w is neither completed nor skipped.
SomeStepOpen(w) ==
  \E i \in 1..Len(w.steps) : w.steps[i].status \notin {"completed", "skipped"}

\* C19: start on a draft workflow with a step lacking a name or a type, and
\* review on a running workflow with a step neither completed nor skipped,
\* fail with GuardNotMet and leave the workflow unchanged.
C19_GuardNotMetKeepsWorkflow ==
  [][ (Exists /\ wfCall'.op = "transition" /\ wfCall'.from = W.state
         /\ \/ W.state = "draft" /\ wfCall'.arg = "start" /\ SomeStepIncomplete(W)
            \/ W.state = "running" /\ wfCall'.arg = "review" /\ SomeStepOpen(W))
        => /\ wfCall'.res = "GuardNotMet"
           /\ workflows' = workflows ]_vars

\* A review of a running workflow with an open step has just been refused.
C19_Witness ==
  /\ Exists
  /\ W.state = "running"
  /\ SomeStepOpen(W)
  /\ wfCall = Call("transition", "review", "GuardNotMet", "running")

\* The steps that step i of steps depends on, by name or id.
DependsOn(steps, i) ==
  {Resolve(steps, steps[i].dependencies[k]) : k \in 1..Len(steps[i].dependencies)} \ {0}

\* What is left of S after repeatedly removing the steps that depend on no
\* step of S: empty exactly when the dependency graph has no cycle.
RECURSIVE Unordered(_, _)
Unordered(steps, S) ==
  LET free == {i \in S : DependsOn(steps, i) \cap S = {}}
  IN  IF free = {} THEN S ELSE Unordered(steps, S \ free)

Acyclic(steps) == Unordered(steps, 1..Len(steps)) = {}

UniqueNames(steps) ==
  \A i, j \in 1..Len(steps) : steps[i].name = steps[j].name => i = j

\* C20: every stored workflow has an acyclic dependency graph and unique
\* step names.
C20_StoredWorkflowsAcyclic ==
  Exists => Acyclic(W.steps) /\ UniqueNames(W.steps)

\* p is 100 * n / d rounded to the nearest integer (halves upwards).
IsRounded(p, n, d) == 2 * d * p - d <= 200 * n /\ 200 * n < 2 * d * p + d

\* C21: after every completeStep call that finds its step, a repeated call on
\* one step and the call that enters review included, stepsCompleted has grown
\* by one and progressPercentage is round(stepsCompleted / stepsTotal * 100).
C21_ProgressPercentageRounded ==
  [][ (Exists /\ wfCall'.op = "completeStep" /\ wfCall'.res \notin {"UnknownStep", "UnknownWorkflow"})
        => /\ workflows'["w1"].metrics.stepsCompleted = W.metrics.stepsCompleted + 1
           /\ IsRounded(workflows'["w1"].metrics.progressPercentage,
                        workflows'["w1"].metrics.stepsCompleted,
                        workflows'["w1"].metrics.stepsTotal) ]_vars

\* completeStep has just been called again on a step already completed.
C21_Witness ==
  /\ Exists
  /\ wfCall.op = "completeStep"
  /\ wfCall.res = "ok"
  /\ W.metrics.stepsCompleted > NumCompleted(W)
  /\ W.metrics.progressPercentage > 0

\* No registered agent is available with a load under 100.
NoneEligible ==
  \A a \in DOMAIN agents :
    agents[a].status # "available" \/ ~Less(agents[a].currentLoad, Whole(100))

\* C22: assignTask fails with NoAgentAvailable when no registered agent (the
\* preferred one included) is available with a load under 100, and the failed
\* call creates no assignment and leaves the agents and the round-robin queue
\* as they were.
C22_NoAgentAvailable ==
  [][ /\ (orchCall' = "pending" /\ NoneEligible)
          => /\ jobs'[Len(jobs')].agentId = ""
             /\ UNCHANGED <<agents, assignments, agentQueue>>
      /\ (jobs # << >> /\ Head(jobs).kind = "assignTask" /\ Head(jobs).agentId = "")
          => /\ orchCall' = "NoAgentAvailable"
             /\ Head(jobs).taskId \notin DOMAIN assignments'
             /\ UNCHANGED <<agents, assignments, agentQueue>> ]_vars

\* assignTask has just failed while an agent was available but at capacity.
C22_Witness ==
  /\ orchCall = "NoAgentAvailable"
  /\ NoneEligible
  /\ \E a \in DOMAIN agents : agents[a].status = "available"

\* The agent the last assignTask call selected ("" for none).
Chosen(js) == js[Len(js)].agentId

\* C23: an eligible preferred agent is chosen under every strategy and
\* whatever the required capabilities, without touching the round-robin
\* queue; a preferred agent that is unknown, not available or at capacity
\* makes the call select as it does without a preference; the selected agent
\* is the one the task is then assigned to.
C23_PreferredAgent ==
  [][ /\ \A t \in TaskIds, r \in RequirementInputs, p \in PreferredInputs \ {""} :
           AssignTask(t, r, p)
             => IF p \in DOMAIN agents /\ agents[p].status = "available"
                     /\ Less(agents[p].currentLoad, Whole(100))
                  THEN Chosen(jobs') = p /\ agentQueue' = agentQueue
                  ELSE LET plain == selectAgent(agents, agentOrder, agentQueue,
                                                loadBalancingStrategy, r, "")
                       IN  /\ Chosen(jobs') = plain.agent
                           /\ agentQueue' = plain.queue
                           /\ Chosen(jobs') = "" <=> NoneEligible
      /\ (jobs # << >> /\ Head(jobs).kind = "assignTask" /\ Head(jobs).agentId # "")
           => /\ Head(jobs).taskId \in DOMAIN assignments'
              /\ assignments'[Head(jobs).taskId].agentId = Head(jobs).agentId
              /\ \A a \in DOMAIN agents :
                   Copies(agents', a, Head(jobs).taskId)
                     = Copies(agents, a, Head(jobs).taskId)
                         + (IF a = Head(jobs).agentId THEN 1 ELSE 0) ]_vars

\* Under round_robin the preferred worker has been selected although the
\* agent at the head of the queue could take the task.
C23_Witness ==
  /\ loadBalancingStrategy = "round_robin"
  /\ orchCall = "pending"
  /\ jobs # << >>
  /\ Chosen(jobs) = "worker-1"
  /\ agentQueue[1] = "claude-3-opus"
  /\ agents["claude-3-opus"].status = "available"
  /\ agents["claude-3-opus"].activeTasks = << >>

\* The agents available with a load under 100.
EligibleIds ==
  {a \in DOMAIN agents : agents[a].status = "available" /\ Less(agents[a].currentLoad, Whole(100))}

\* The number of tasks assigned so far in the round-robin scenario, and the
\* agent the i-th of them went to.
NumAssigned == Cardinality(DOMAIN assignments)

Pick(i) == assignments[AllTaskIds[i]].agentId

\* C24: under round_robin, while the set E of eligible agents is what it was
\* before the first assignment (no available agent has reached its capacity),
\* every |E| consecutive assignments go to |E| different agents, each agent
\* of E once.
C24_RoundRobinVisitsAll ==
  LET E == EligibleIds
  IN  (E # {} /\ E = {a \in DOMAIN agents : agents[a].status = "available"})
        => \A k \in 1..NumAssigned :
             (k + Cardinality(E) - 1 <= NumAssigned)
               => {Pick(i) : i \in k..(k + Cardinality(E) - 1)} = E

\* C25: after any sequence of registrations the registry holds one record
\* per id and the round-robin queue holds each registered id exactly once.
C25_QueueHoldsEachIdOnce ==
  /\ \A a \in DOMAIN agents :
       /\ Cardinality({i \in 1..Len(agentQueue) : agentQueue[i] = a}) = 1
       /\ Cardinality({i \in 1..Len(agentOrder) : agentOrder[i] = a}) = 1
       /\ agents[a].id = a
  /\ \A i \in 1..Len(agentQueue) : agentQueue[i] \in DOMAIN agents

\* The proficiencies of the agent's capabilities that match a required
\* capability; 0 alone when none matches.
Proficiencies(agent, required) ==
  LET hits == {agent.capabilities[i].proficiency :
                 i \in {k \in 1..Len(agent.capabilities) : Matches(agent.capabilities[k], required)}}
  IN  IF hits = {} THEN {0} ELSE hits

\* Agent a is strictly more proficient than agent b on every capability of a
\* non-empty list of required capabilities.
Outranks(a, b, requiredCapabilities) ==
  /\ requiredCapabilities # << >>
  /\ \A k \in 1..Len(requiredCapabilities) :
       \A pa \in Proficiencies(agents[a], requiredCapabilities[k]) :
         \A pb \in Proficiencies(agents[b], requiredCapabilities[k]) : pa > pb

\* C26: under capability_based with no preferred agent, when candidates A and
\* B have equal load and A is strictly more proficient than B on every
\* required capability, assignTask does not choose B, and chooses A when A
\* and B are the only candidates.
C26_HigherProficiencyWins ==
  [][ \A r \in RequirementInputs :
        AssignNextTaskRequiring(r)
          => \A A \in EligibleIds, B \in EligibleIds :
               (agents[A].currentLoad = agents[B].currentLoad /\ Outranks(A, B, r))
                 => /\ Chosen(jobs') # B
                    /\ EligibleIds = {A, B} => Chosen(jobs') = A ]_vars

\* gpt-4-turbo (debugging 4) has been chosen over claude-3-opus (no debugging
\* skill), which comes first among the candidates and is as idle.
C26_Witness ==
  /\ loadBalancingStrategy = "capability_based"
  /\ orchCall = "pending"
  /\ jobs # << >>
  /\ Chosen(jobs) = "gpt-4-turbo"
  /\ EligibleIds = {"claude-3-opus", "gpt-4-turbo"}
  /\ agents["claude-3-opus"].currentLoad = agents["gpt-4-turbo"].currentLoad

ActiveStatuses == {"assigned", "in_progress", "reassigned"}

\* C27: once the operations called have run to their end, a task id is in
\* the active list of agent X, once, exactly when its assignment record has
\* agentId X and status assigned, in_progress or reassigned.
C27_ActiveSetMatchesAssignments ==
  Quiet =>
    /\ \A t \in DOMAIN assignments, a \in DOMAIN agents :
         Copies(agents, a, t)
           = (IF assignments[t].agentId = a /\ assignments[t].status \in ActiveStatuses
                THEN 1 ELSE 0)
    /\ \A a \in DOMAIN agents : \A i \in 1..Len(agents[a].activeTasks) :
         agents[a].activeTasks[i] \in DOMAIN assignments

(***************************************************************************)
(* Workflow engine under a caller that works through the ready steps       *)
(***************************************************************************)
\* The step lists of the caller: acyclic, every dependency names a step,
\* every step created pending.
DriverInputs ==
  {[templateId |-> "", customSteps |-> c] :
     c \in {Linear3, ParallelResearch, Fork, Independent3, Reversed3}}

StartWorkflow ==
  /\ Exists
  /\ W.state = "draft"
  /\ Transition("w1", "start")

\* The caller picks a step whose status is ready and executes it.
ExecuteReadyStep ==
  /\ Exists
  /\ W.state = "running"
  /\ \E i \in 1..Len(W.steps) :
       W.steps[i].status = "ready" /\ ExecuteStep("w1", W.steps[i].id)

\* The caller completes a step it has executed.
CompleteRunningStep ==
  /\ Exists
  /\ W.state = "running"
  /\ \E i \in 1..Len(W.steps) :
       W.steps[i].status = "running" /\ CompleteStep("w1", W.steps[i].id)

NextDriver ==
  \/ \E p \in DriverInputs : CreateWorkflow(p)
  \/ StartWorkflow
  \/ ExecuteReadyStep
  \/ CompleteRunningStep

SpecDriver == Init /\ [][NextDriver]_vars

\* The caller keeps going: it starts the workflow, executes a ready step when
\* there is one and completes a step it has executed.
SpecDriverFair ==
  /\ SpecDriver
  /\ WF_vars(StartWorkflow)
  /\ WF_vars(ExecuteReadyStep)
  /\ WF_vars(CompleteRunningStep)

\* The steps of W once the step of the given id is completed.
WithCompleted(steps, stepId) ==
  [i \in 1..Len(steps) |->
     IF steps[i].id = stepId THEN [steps[i] EXCEPT !.status = "completed"] ELSE steps[i]]

\* The pending steps whose dependencies are all completed.
PendingWithDeps(steps) ==
  {i \in 1..Len(steps) : steps[i].status = "pending" /\ DepsCompleted(steps, steps[i])}

\* C28: after a completeStep call that does not finish the workflow, the
\* first step in declaration order that is pending with all dependencies
\* completed has been promoted to ready, and no other step has been promoted.
C28_FirstPendingPromoted ==
  [][ (Exists /\ wfCall'.op = "completeStep" /\ wfCall'.res = "ok"
         /\ ~AllDone(workflows'["w1"]))
        => LET mid == WithCompleted(W.steps, wfCall'.arg)
               firsts == {i \in PendingWithDeps(mid) : \A j \in PendingWithDeps(mid) : i <= j}
           IN  \A i \in 1..Len(mid) :
                 workflows'["w1"].steps[i].status
                   = (IF i \in firsts THEN "ready" ELSE mid[i].status) ]_vars

AllCompleted(w) == \A i \in 1..Len(w.steps) : w.steps[i].status = "completed"

completeStepMark(w, stepId) ==
  LET HasId(s) == s.id = stepId
      n == FindIndex([ix \in 1..Len(w.steps) |-> HasId(w.steps[ix])])
  IN  IF n = 0 THEN [w |-> w, res |-> "UnknownStep"]
      ELSE [w |-> [w EXCEPT !.steps[n].status = "completed"], res |-> "pending"]

\* WorkflowEngine.completeStep after the artifacts are tracked: the metrics,
\* then the review transition or startNextStep.
completeStepFinish(w) ==
  LET done == [w EXCEPT !.metrics.stepsCompleted = @ + 1,
                        !.metrics.progressPercentage =
                           RoundPercent(w.metrics.stepsCompleted + 1, w.metrics.stepsTotal)]
  IN  IF allStepsComplete(done) THEN transition(done, "review")
      ELSE [w |-> startNextStep(done), res |-> "ok"]

\* A completeStep call with artifacts on a step the caller has executed; the
\* call waits at its await.
BeginCompleteStep ==
  /\ Exists
  /\ W.state = "running"
  /\ \E i \in 1..Len(W.steps) :
       /\ W.steps[i].status = "running"
       /\ LET r == completeStepMark(W, W.steps[i].id)
          IN  /\ workflows' = [workflows EXCEPT !["w1"] = r.w]
              /\ wfCall' = Call("completeStep", W.steps[i].id, r.res, W.state)
              /\ wfHistory' = Remember("completeStep", W.steps[i].id)
              /\ jobs' = Append(jobs, [kind |-> "completeStep", agentId |-> "", tasks |-> << >>,
                                       taskId |-> W.steps[i].id])
  /\ UNCHANGED <<agents, agentOrder, agentQueue, assignments, loadBalancingStrategy, orchCall>>

\* One of the waiting completeStep calls runs to its end.
ResumeCompleteStep ==
  /\ Exists
  /\ \E k \in 1..Len(jobs) :
       /\ jobs[k].kind = "completeStep"
       /\ LET r == completeStepFinish(W)
          IN  /\ r.w.metrics.stepsCompleted <= MaxStepsCompleted
              /\ workflows' = [workflows EXCEPT !["w1"] = r.w]
              /\ wfCall' = Call("completeStep", jobs[k].taskId, r.res, W.state)
       /\ jobs' = SubSeq(jobs, 1, k - 1) \o SubSeq(jobs, k + 1, Len(jobs))
  /\ UNCHANGED <<wfHistory, agents, agentOrder, agentQueue, assignments, loadBalancingStrategy,
                 orchCall>>

NextInterleaved ==
  \/ \E p \in DriverInputs : CreateWorkflow(p)
  \/ StartWorkflow
  \/ ExecuteReadyStep
  \/ BeginCompleteStep
  \/ ResumeCompleteStep

SpecInterleaved == Init /\ [][NextInterleaved]_vars

\* C30: completeStep calls on different steps whose bodies interleave behave
\* as in some serial order: no call fails, once all calls have ended
\* stepsCompleted is the number of calls, and review is entered by the last
\* call to end, with every step completed.
C30_InterleavedCompleteStepSerial ==
  Exists =>
    /\ wfCall.op = "completeStep" => wfCall.res \in {"ok", "pending"}
    /\ jobs = << >> => W.metrics.stepsCompleted = NumCompleted(W)
    /\ W.state = "review" => (jobs = << >> /\ AllCompleted(W))

\* C31: under capability_based with no preferred agent, for every list of
\* required capabilities (the empty list and a list nobody matches included)
\* assignTask chooses the first candidate in iteration order among those of
\* the highest score, the score being the sum of the matched proficiencies
\* times (1 - currentLoad/100).
C31_FirstTopScoreChosen ==
  [][ \A r \in RequirementInputs :
        (AssignNextTaskRequiring(r) /\ EligibleIds # {})
          => LET candidates == SelectSeq(AgentList(agents, agentOrder), Eligible)
                 Top(i) == \A j \in 1..Len(candidates) :
                             ~Less(CapabilityScore(candidates[i], r), CapabilityScore(candidates[j], r))
             IN  \E i \in 1..Len(candidates) :
                   /\ Top(i)
                   /\ \A j \in 1..(i - 1) : ~Top(j)
                   /\ Chosen(jobs') = candidates[i].id ]_vars

\* C32: under least_loaded without a preferred agent, and in every
\* reassignment (by failTask with retry, and of each task of an agent that
\* goes offline or into error), the agent chosen is among the candidates
\* (available, load under 100, and in a reassignment not the task's previous
\* agent), no candidate has a lower load, and no candidate of the same load
\* comes earlier in the registry.
C32_LeastLoadedFirst ==
  [][ LET Pos(a) == CHOOSE i \in 1..Len(agentOrder) : agentOrder[i] = a
          Least(C, a) ==
            /\ a \in C
            /\ \A b \in C : ~Less(agents[b].currentLoad, agents[a].currentLoad)
            /\ \A b \in C : agents[b].currentLoad = agents[a].currentLoad => Pos(a) <= Pos(b)
          Moved(t, out) ==
            LET C == EligibleIds \ {assignments[t].agentId, out}
            IN  C # {} => /\ assignments'[t].status = "reassigned"
                          /\ Least(C, assignments'[t].agentId)
      IN  /\ (BackgroundAssignTask("") /\ EligibleIds # {}) => Least(EligibleIds, Chosen(jobs'))
          /\ \A t \in LifecycleTaskIds :
               (t \in DOMAIN assignments /\ FailTask(t, TRUE)) => Moved(t, "")
          /\ \A p \in StatusInputs :
               (/\ p[2] \in {"offline", "error"}
                /\ agents[p[1]].activeTasks # << >>
                /\ BackgroundUpdateAgentStatus(p[1], p[2]))
                 => Moved(Head(agents[p[1]].activeTasks), p[1])
          /\ (ResumeReassignAgentTasks /\ Head(jobs).tasks # << >>)
               => Moved(Head(Head(jobs).tasks), "") ]_vars

\* t1, failed on claude-3-opus, has been reassigned to gpt-4-turbo, which was
\* as loaded as gemini-pro and comes before it in the registry.
C32_Witness ==
  /\ "t1" \in DOMAIN assignments
  /\ assignments["t1"].status = "reassigned"
  /\ assignments["t1"].agentId = "gpt-4-turbo"
  /\ agents["gpt-4-turbo"].activeTasks = <<"t2", "t1">>
  /\ agents["gemini-pro"].activeTasks = <<"t3", "t4">>
  /\ agents["claude-3-opus"].status = "available"
  /\ agents["gemini-pro"].status = "available"
  /\ jobs = << >>

\* C33: under hybrid with no preferred agent the agent chosen is the
\* capability_based winner when that is also the performance_based winner;
\* otherwise it is the one of the two winners with the lower load; it is
\* always one of the two and never more loaded than the other.
C33_HybridWinner ==
  [][ \A r \in RequirementInputs :
        (AssignNextTaskRequiring(r) /\ EligibleIds # {})
          => LET candidates == SelectSeq(AgentList(agents, agentOrder), Eligible)
                 capabilityAgent == selectByCapability(candidates, r)
                 performanceAgent == selectByPerformance(candidates, r)
                 chosen == agents[Chosen(jobs')]
             IN  /\ Chosen(jobs') \in {capabilityAgent.id, performanceAgent.id}
                 /\ capabilityAgent.id = performanceAgent.id => Chosen(jobs') = capabilityAgent.id
                 /\ Less(capabilityAgent.currentLoad, performanceAgent.currentLoad)
                      => Chosen(jobs') = capabilityAgent.id
                 /\ Less(performanceAgent.currentLoad, capabilityAgent.currentLoad)
                      => Chosen(jobs') = performanceAgent.id
                 /\ ~Less(capabilityAgent.currentLoad, chosen.currentLoad)
                 /\ ~Less(performanceAgent.currentLoad, chosen.currentLoad) ]_vars

\* With gemini-pro (one task) and the idle worker as the only candidates the
\* performance winner is gemini-pro whatever is required (88.65 against 88),
\* and the worker has been chosen: it is the capability winner and less
\* loaded.
C33_Witness ==
  /\ loadBalancingStrategy = "hybrid"
  /\ orchCall = "pending"
  /\ jobs # << >>
  /\ Chosen(jobs) = "worker-1"
  /\ EligibleIds = {"gemini-pro", "worker-1"}
  /\ agents["gemini-pro"].activeTasks = <<"t1">>
  /\ agents["worker-1"].activeTasks = << >>

\* C34: transition(start) on a draft workflow is accepted exactly when every
\* step of the workflow has a non-empty name and a type, whatever the number
\* of steps.
C34_StartGuardIsStepsNamedAndTyped ==
  [][ (Exists /\ W.state = "draft" /\ wfCall'.op = "transition" /\ wfCall'.arg = "start"
         /\ wfCall'.from = "draft")
        => (wfCall'.res = "ok" <=> ~SomeStepIncomplete(W)) ]_vars

\* C35: in every reachable state stepsCompleted is the number of steps whose
\* status is completed, it is at most stepsTotal, and progressPercentage is
\* within 0..100.
C35_StepsCompletedCountsCompleted ==
  Exists =>
    /\ W.metrics.stepsCompleted = NumCompleted(W)
    /\ W.metrics.stepsCompleted <= W.metrics.stepsTotal
    /\ W.metrics.progressPercentage \in 0..100

\* C36: a step becomes completed only from running and only when all its
\* dependencies are completed at that moment, and in every reachable state
\* every completed step has all its dependencies completed.
C36_CompletedOnlyAfterDependencies ==
  /\ [](Exists => \A i \in 1..Len(W.steps) :
                    W.steps[i].status = "completed" => DepsCompleted(W.steps, W.steps[i]))
  /\ [][ Exists =>
           \A i \in 1..Len(W.steps) :
             (W.steps[i].status # "completed" /\ workflows'["w1"].steps[i].status = "completed")
               => (W.steps[i].status = "running" /\ DepsCompleted(W.steps, W.steps[i])) ]_vars

\* C37: once a step's status is completed no operation changes it.
C37_CompletedIsPermanent ==
  [][ Exists =>
        \A i \in 1..Len(W.steps) :
          W.steps[i].status = "completed" => workflows'["w1"].steps[i].status = "completed" ]_vars

\* C38: a completeStep call that fails (unknown workflow, unknown step, or
\* the review transition it makes is rejected) leaves every step's status,
\* stepsCompleted and progressPercentage as they were before the call.
C38_FailedCompleteStepWritesNothing ==
  [][ (wfCall'.op = "completeStep" /\ wfCall'.res # "ok")
        => /\ DOMAIN workflows' = DOMAIN workflows
           /\ Exists =>
                /\ \A i \in 1..Len(W.steps) : workflows'["w1"].steps[i].status = W.steps[i].status
                /\ workflows'["w1"].metrics.stepsCompleted = W.metrics.stepsCompleted
                /\ workflows'["w1"].metrics.progressPercentage = W.metrics.progressPercentage ]_vars

\* C39: under capability_based with a non-empty list of required capabilities
\* and no preferred agent, the agent assignTask selects has a capability that
\* matches one of them; when no candidate has one, no agent is selected and
\* the call fails with NoAgentAvailable without creating an assignment.
C39_OnlyMatchingAgentsAssigned ==
  [][ LET Fits(a, r) == \E k \in 1..Len(r) : \E i \in 1..Len(agents[a].capabilities) :
                          Matches(agents[a].capabilities[i], r[k])
      IN  /\ \A r \in RequirementInputs \ {<< >>} :
               AssignNextTaskRequiring(r)
                 => IF \E a \in EligibleIds : Fits(a, r)
                      THEN Chosen(jobs') \in EligibleIds /\ Fits(Chosen(jobs'), r)
                      ELSE Chosen(jobs') = ""
          /\ (jobs # << >> /\ Head(jobs).kind = "assignTask" /\ Head(jobs).agentId = "")
               => /\ orchCall' = "NoAgentAvailable"
                  /\ assignments' = assignments ]_vars

\* C40: after updateAgentStatus(A, offline or error) the pending reassignment
\* eventually leaves A with an empty active list and load 0; each task it
\* takes from A's list is then failed, or reassigned to another agent that is
\* available and is the only agent besides A to hold it; and the step that
\* clears A's list does not drop a task assigned to A since.
C40_OutOfServiceAgentHandsOver ==
  /\ \A p \in {q \in StatusInputs : q[2] \in {"offline", "error"}} :
       (\E i \in 1..Len(jobs) : jobs[i].kind = "reassignAgentTasks" /\ jobs[i].agentId = p[1])
         ~> (agents[p[1]].activeTasks = << >> /\ agents[p[1]].currentLoad = Whole(0))
  /\ [][ \A a \in DOMAIN agents : \A t \in DOMAIN assignments :
           LET moved ==
                 \/ /\ ResumeReassignAgentTasks
                    /\ Head(jobs).agentId = a
                    /\ Head(jobs).tasks # << >>
                    /\ Head(Head(jobs).tasks) = t
                 \/ \E p \in StatusInputs :
                      /\ p[1] = a
                      /\ p[2] \in {"offline", "error"}
                      /\ agents[a].activeTasks # << >>
                      /\ Head(agents[a].activeTasks) = t
                      /\ BackgroundUpdateAgentStatus(p[1], p[2])
           IN  moved => \/ assignments'[t].status = "failed"
                        \/ /\ assignments'[t].status = "reassigned"
                           /\ assignments'[t].agentId # a
                           /\ agents'[assignments'[t].agentId].status = "available"
                           /\ \A b \in DOMAIN agents \ {a} :
                                Copies(agents', b, t)
                                  = (IF b = assignments'[t].agentId THEN 1 ELSE 0) ]_vars
  /\ [][ (ResumeReassignAgentTasks /\ Head(jobs).tasks = << >>)
           => \A t \in DOMAIN assignments :
                (/\ assignments[t].agentId = Head(jobs).agentId
                 /\ assignments[t].status = "assigned"
                 /\ Copies(agents, Head(jobs).agentId, t) = 1)
                  => Copies(agents', Head(jobs).agentId, t) = 1 ]_vars

====
